---------------------------- MODULE Spec2Model ----------------------------
(***************************************************************************)
(* VoyagerSD registry server (src/server): the service map of the server,  *)
(* in its two modes (in-memory with a janitor, store-backed with a cache   *)
(* refresher over etcd), the four RPC handlers behind the auth             *)
(* interceptor, and the background loops.                                  *)
(*                                                                         *)
(* Time is discrete.  One handler call is one goroutine; a goroutine is    *)
(* at "idle", inside a handler (between two etcd calls, or before taking   *)
(* the lock s.mu) or at "done" with its response.  A section of a handler  *)
(* that runs under s.mu without an etcd call inside is one step.           *)
(***************************************************************************)
EXTENDS Integers, Sequences, FiniteSets, TLC

(***************************************************************************)
(* Bounds of the model                                                     *)
(***************************************************************************)
\* Config.CacheTTL in clock ticks (at least 2, so that cacheTTL/2 > 0).
CacheTTL == 2
\* The clock stops here in in-memory mode: past lastSeen + cacheTTL + cacheTTL/2.
MaxTime == 4
\* The clock stops here in store-backed mode: a lease of cacheTTL has run out.
MaxStoreTime == 2
\* The RPCs one behaviour may issue.
MaxCalls == 3
\* The connections the pool dials with success, the pool calls made (Get and
\* Release) and the calls of the pool's Close are capped.
MaxDials == 2
MaxPoolCalls == 4
MaxCloses == 2
\* The calls of the balancer's Select are capped.
MaxSelects == 5
\* The health-check loops a client starts and the calls its user makes are
\* capped.
MaxLoops == 2
MaxUserCalls == 3
\* Options.TTL of the client: how long its discovery cache keeps a list.
ClientTTL == 1
\* The calls of Discover the user makes where instances come and go.
MaxDiscovers == 2
\* The calls of the least-connections Select.
MaxLeast == 2
\* 5 * time.Second in the unit of now: the server's cacheTTL is below it.
FiveSeconds == 4
\* The largest Options.TTL and HealthCheckInterval that startHealthChecks is tried with.
MaxTTL == 20

(***************************************************************************)
(* Values                                                                  *)
(***************************************************************************)
Services == {"a", "b"}
Ids == {"i1", "i2"}
\* The goroutines that serve RPCs.
Procs == {"p1", "p2"}

\* (address, port, metadata) of a valid Registration.
Payloads ==
  { [address |-> "h1", port |-> 8080, metadata |-> {}],
    [address |-> "h2", port |-> 9090, metadata |-> {<<"env", "prod">>}] }

MakeReg(s, i, pl) ==
  [serviceName |-> s, instanceId |-> i, address |-> pl.address,
   port |-> pl.port, metadata |-> pl.metadata]

\* The instances that register: two of service "a"; service "b" has none.
Registrants == { <<"a", "i1">>, <<"a", "i2">> }

ValidRegs == { MakeReg(k[1], k[2], pl) : k \in Registrants, pl \in Payloads }

\* One Registration for each way of failing the check of Register.
InvalidRegs ==
  { [serviceName |-> "", instanceId |-> "i1", address |-> "h1", port |-> 8080, metadata |-> {}],
    [serviceName |-> "a", instanceId |-> "", address |-> "h1", port |-> 8080, metadata |-> {}],
    [serviceName |-> "a", instanceId |-> "i1", address |-> "", port |-> 8080, metadata |-> {}],
    [serviceName |-> "a", instanceId |-> "i1", address |-> "h1", port |-> 0, metadata |-> {}] }

Registrations == ValidRegs \cup InvalidRegs

\* InstanceID and HealthRequest messages.
InstanceIDs == { [serviceName |-> k[1], instanceId |-> k[2]] : k \in Registrants }

\* ServiceQuery messages.
ServiceQueries == { [serviceName |-> s, healthyOnly |-> TRUE] : s \in Services }

\* The incoming metadata of a request: ok is what metadata.FromIncomingContext
\* returns, authorization the values of the "authorization" header.
NoMD == [ok |-> FALSE, authorization |-> <<>>]
MDs ==
  { NoMD,
    [ok |-> TRUE, authorization |-> <<>>],
    [ok |-> TRUE, authorization |-> <<"T">>],
    [ok |-> TRUE, authorization |-> <<"X">>],
    [ok |-> TRUE, authorization |-> <<"X", "T">>] }

AuthTokens == {"", "T"}

Key(s, i) == <<s, i>>
KeyOf(m) == Key(m.serviceName, m.instanceId)
Keys == Registrants

\* cacheTTL / 2 on a time.Duration: integer division.
Half == CacheTTL \div 2

VARIABLES
  inMemory,           \* Server.inMemory
  authToken,          \* Server.authToken
  inMemoryInstances,  \* Server.inMemoryInstances: service -> id -> instanceInfo
  services,           \* Server.services: service -> id -> Registration
  etcd,               \* the store: key -> [value, expiry of its lease]
  mu,                 \* Server.mu: the goroutines that hold the write lock
  now,                \* time.Now()
  janitorNext,        \* when the janitor's time.After fires
  refreshNext,        \* when the refresher's ticker fires next
  refresher,          \* the cache refresher: "wait" or "swap"
  newCache,           \* refreshCache's newCache, between Get and the swap
  pc,                 \* goroutine -> place in its handler
  call,               \* goroutine -> the RPC it serves
  lease,              \* goroutine -> expiry of the lease it was granted
  resp,               \* goroutine -> its response
  storeOK,            \* goroutine -> whether the etcd calls of its RPC succeeded
  concurrent,         \* whether RPCs and refreshes overlap
  calls,              \* the RPCs issued so far
  lastReg,            \* key -> the latest successful Register since the last Deregister or expiry
  expired,            \* keys the janitor removed, not registered since
  deregistered,       \* key -> whether its Deregister, which returned success, found it; no Register issued since
  boot,               \* what NewServer was given and met: cfg, whether the connection and the load succeeded
  janitors,           \* the janitor goroutines started
  refreshers,         \* the cache refresher goroutines started
  metrics,            \* cacheRefreshCounter and cacheRefreshErrors, where they are followed (on)
  ctx,                \* Server.ctx: whether Close cancelled it, and the background loops that returned
  sync,               \* when the store first changed since the last successful prefix get, if tracked
  conns,              \* ConnectionPool.conns: address -> pooledConnection
  pcs,                \* the pooledConnections made so far: address, refCount, the Gets and Releases counted in it, closes of the ClientConn, its state
  monitor,            \* pooledConnection -> place of its monitorConnection goroutine
  gpc,                \* goroutine -> place in its pool call
  gaddr,              \* goroutine -> the address of its pool call
  gres,               \* goroutine -> what its last Get returned: a pooledConnection's ClientConn, 0 for an error
  held,               \* goroutine -> address -> its Gets not yet released
  dials,              \* address -> the calls of grpc.DialContext
  closings,           \* the calls of ConnectionPool.Close
  raced,              \* goroutine -> whether its Get dialed while the other's Get waited for the lock
  pcalls,             \* the pool calls made so far
  index,              \* roundRobinBalancer.index: service name -> cursor
  lists,              \* service name -> the instance list that Select is given
  selects,            \* service name -> the calls of Select made for it
  picked,             \* service name -> what the last Select for it returned
  cli,                \* Client.serviceName, instanceID, address, port
  healthCheckCtx,     \* Client.healthCheckCtx: 0 for nil, else the context made by the n-th start
  cancelled,          \* the health-check contexts that were cancelled
  loops,              \* context -> place of the loop goroutine started with it
  upc,                \* place of the user's goroutine in its call of the client
  ures,               \* what the user's last call returned
  rpc,                \* thread (0 the user, n the n-th loop) -> its RPC in flight
  quiet,              \* the user's Deregister returned nil and the user has not called Register since
  reregistered,       \* context -> whether its loop has re-registered
  ucalls,             \* the calls the user made so far
  ccache,             \* Client.cache: service name -> [object, expiration]
  dname,              \* the service name of the user's Discover
  dinst,              \* the instances getServiceInstances returned to it
  ustamp,             \* pcalls or closings when the user's call went to the pool
  connCloses,         \* the calls of Close on Client.conn
  health,             \* Options.TTL and Options.HealthCheckInterval; the interval of the ticker of the loop started last; when it fires next, if the times of the ticker are followed (clocked), a tick being possible at any time if not
  lc                  \* the call of leastConnectionsBalancer.Select: its list, how far its loop is, minConns, selected, the counts it read

useVars == <<ccache, dname, dinst, ustamp, connCloses>>

clientVars ==
  <<index, lists, selects, picked, cli, healthCheckCtx, cancelled, loops, upc, ures, rpc,
    quiet, reregistered, ucalls, useVars, lc, health>>

poolVars ==
  <<conns, pcs, monitor, gpc, gaddr, gres, held, dials, closings, raced, pcalls>>

serverVars ==
  <<inMemory, authToken, inMemoryInstances, services, etcd, mu, now, janitorNext,
    refreshNext, refresher, newCache, pc, call, lease, resp, storeOK, concurrent,
    calls, lastReg, expired, deregistered, boot, janitors, refreshers, metrics, ctx, sync>>

vars == <<serverVars, poolVars, clientVars>>


(***************************************************************************)
(* Go maps                                                                 *)
(***************************************************************************)
EmptyMap == [x \in {} |-> x]
MapPut(m, k, v) == [x \in (DOMAIN m) \cup {k} |-> IF x = k THEN v ELSE m[x]]
MapDel(m, k) == [x \in (DOMAIN m) \ {k} |-> m[x]]

\* A faulty variant: an instance that is already in the map keeps its old record.
Put2Keep(m, s, i, v) ==
  IF s \in DOMAIN m /\ i \in DOMAIN m[s] THEN m
  ELSE MapPut(m, s, MapPut(IF s \in DOMAIN m THEN m[s] ELSE EmptyMap, i, v))

\* A faulty variant: m[s] is made anew on every put.
Put2Fresh(m, s, i, v) == MapPut(m, s, MapPut(EmptyMap, i, v))

\* m[s][i] = v, making m[s] when it does not exist.
Put2(m, s, i, v) ==
  MapPut(m, s, MapPut(IF s \in DOMAIN m THEN m[s] ELSE EmptyMap, i, v))

\* A faulty variant: the whole service is deleted.
Del2All(m, s, i) == IF s \in DOMAIN m THEN MapDel(m, s) ELSE m

\* delete(m[s], i), and delete(m, s) when m[s] is left empty.
Del2(m, s, i) ==
  IF s \notin DOMAIN m THEN m
  ELSE IF (DOMAIN m[s]) \ {i} = {} THEN MapDel(m, s)
  ELSE [m EXCEPT ![s] = MapDel(m[s], i)]

Has2(m, s, i) == s \in DOMAIN m /\ i \in DOMAIN m[s]

\* The orders in which a range over a map with keys S may visit them.
Perms(S) ==
  { f \in [1..Cardinality(S) -> S] : \A x \in S : \E n \in DOMAIN f : f[n] = x }

(***************************************************************************)
(* json.Marshal and json.Unmarshal of a Registration: the fields in        *)
(* declaration order, the zero-valued ones omitted (omitempty).            *)
(***************************************************************************)
Marshal(reg) ==
  <<"{">>
  \o (IF reg.serviceName # "" THEN <<<<"service_name", reg.serviceName>>>> ELSE <<>>)
  \o (IF reg.instanceId # "" THEN <<<<"instance_id", reg.instanceId>>>> ELSE <<>>)
  \o (IF reg.address # "" THEN <<<<"address", reg.address>>>> ELSE <<>>)
  \o (IF reg.port # 0 THEN <<<<"port", reg.port>>>> ELSE <<>>)
  \o (IF reg.metadata # {} THEN <<<<"metadata", reg.metadata>>>> ELSE <<>>)
  \o <<"}">>

Field(bytes, name, zero) ==
  LET at == { n \in 2..(Len(bytes) - 1) : bytes[n][1] = name }
  IN  IF at = {} THEN zero ELSE bytes[CHOOSE n \in at : TRUE][2]

Unmarshal(bytes) ==
  IF Len(bytes) >= 2 /\ bytes[1] = "{" /\ bytes[Len(bytes)] = "}"
  THEN [ok |-> TRUE,
        reg |-> [serviceName |-> Field(bytes, "service_name", ""),
                 instanceId |-> Field(bytes, "instance_id", ""),
                 address |-> Field(bytes, "address", ""),
                 port |-> Field(bytes, "port", 0),
                 metadata |-> Field(bytes, "metadata", {})]]
  ELSE [ok |-> FALSE, reg |-> MakeReg("", "", [address |-> "", port |-> 0, metadata |-> {}])]

(***************************************************************************)
(* Responses                                                               *)
(***************************************************************************)
NoCall == [op |-> "none", req |-> [serviceName |-> ""], md |-> NoMD, clean |-> TRUE]
NoResp == [code |-> "none", success |-> FALSE, instances |-> <<>>, status |-> "none"]

\* (nil, status.Error(code, ...))
Error(code) == [code |-> code, success |-> FALSE, instances |-> <<>>, status |-> "none"]
\* &voyagerv1.Response{Success: true}
Success == [code |-> "OK", success |-> TRUE, instances |-> <<>>, status |-> "none"]
\* &voyagerv1.ServiceList{Instances: list}
ServiceList(list) == [code |-> "OK", success |-> FALSE, instances |-> list, status |-> "none"]
\* &voyagerv1.HealthResponse{Status: st}
HealthResponse(st) == [code |-> "OK", success |-> FALSE, instances |-> <<>>, status |-> st]

\* A faulty variant: a request without an authorization value is let through.
AuthInterceptorLax(token, md) ==
  IF token # ""
  THEN IF ~md.ok THEN "Unauthenticated"
       ELSE IF Len(md.authorization) > 0 /\ md.authorization[1] # token
            THEN "PermissionDenied"
            ELSE "OK"
  ELSE "OK"

(***************************************************************************)
(* Server.AuthInterceptor: the code the request is rejected with, or "OK"  *)
(* when the handler is called.                                             *)
(***************************************************************************)
AuthInterceptor(token, md) ==
  IF token # ""
  THEN IF ~md.ok THEN "Unauthenticated"
       ELSE IF Len(md.authorization) = 0 \/ md.authorization[1] # token
            THEN "PermissionDenied"
            ELSE "OK"
  ELSE "OK"

\* A faulty variant: the port is not checked.
InvalidRegistrationNoPort(req) ==
  req.serviceName = "" \/ req.instanceId = "" \/ req.address = ""

\* The check at the head of Server.Register.
InvalidRegistration(req) ==
  req.serviceName = "" \/ req.instanceId = "" \/ req.address = "" \/ req.port = 0

\* newCache of refreshCache, and s.services after loadInitialData: the
\* values that parse, under the names they hold.
BuildCache(kvs) ==
  LET parsed == { k \in DOMAIN kvs : Unmarshal(kvs[k].value).ok }
      regOf(k) == Unmarshal(kvs[k].value).reg
      at(s, i) == { k \in parsed : regOf(k).serviceName = s /\ regOf(k).instanceId = i }
  IN  [s \in { regOf(k).serviceName : k \in parsed } |->
        [i \in { regOf(k).instanceId : k \in { x \in parsed : regOf(x).serviceName = s } } |->
          regOf(CHOOSE k \in at(s, i) : TRUE)]]

(***************************************************************************)
(* NewServer: the mode, decided once (no endpoints, or the connection or   *)
(* the initial load failed: in-memory), empty maps, the janitor or the     *)
(* refresher started.                                                      *)
(***************************************************************************)
\* A faulty variant: a failed initial load leaves the server store-backed.
NewServerNoFallback(cfg, connectOK, loadOK, store) ==
  LET connected == Len(cfg.ETCDEndpoints) # 0 /\ connectOK
      loaded == connected /\ loadOK
      mem == ~connected
  IN  [inMemory |-> mem,
       services |-> IF loaded THEN BuildCache(store) ELSE EmptyMap,
       refreshers |-> IF loaded THEN 1 ELSE 0,
       janitors |-> IF mem THEN 1 ELSE 0]

\* The server NewServer returns: cfg.ETCDEndpoints given or not, clientv3.New
\* and loadInitialData succeeding or not, store the records under /services/.
NewServer(cfg, connectOK, loadOK, store) ==
  LET connected == Len(cfg.ETCDEndpoints) # 0 /\ connectOK
      loaded == connected /\ loadOK
      mem == IF Len(cfg.ETCDEndpoints) = 0 THEN TRUE
             ELSE IF ~connectOK THEN TRUE
             ELSE IF ~loadOK THEN TRUE
             ELSE FALSE
  IN  [inMemory |-> mem,
       services |-> IF loaded THEN BuildCache(store) ELSE EmptyMap,
       refreshers |-> IF loaded THEN 1 ELSE 0,
       janitors |-> IF mem THEN 1 ELSE 0]

\* Config.ETCDEndpoints: none, or one endpoint.
Configs == { [ETCDEndpoints |-> <<>>], [ETCDEndpoints |-> <<"etcd:2379">>] }
\* Every way NewServer may go.
Boots == [cfg : Configs, connectOK : BOOLEAN, loadOK : BOOLEAN]
\* No endpoints, or endpoints with the connection and the load succeeding.
PlainBoots == { b \in Boots : b.connectOK /\ b.loadOK }

Addresses == {"h1:9090", "h2:9090"}

\* NewConnectionPool(opts): no connection yet, no call made.
NewConnectionPool ==
  /\ conns = EmptyMap
  /\ pcs = <<>>
  /\ monitor = <<>>
  /\ gpc = [p \in Procs |-> "idle"]
  /\ gaddr = [p \in Procs |-> ""]
  /\ gres = [p \in Procs |-> -1]
  /\ held = [p \in Procs |-> [a \in Addresses |-> 0]]
  /\ dials = [a \in Addresses |-> 0]
  /\ closings = 0
  /\ raced = [p \in Procs |-> FALSE]
  /\ pcalls = 0

\* The instance lists a Discover may return: up to three instances of a
\* service, in a fixed order.
InstanceAt(s, k) ==
  [serviceName |-> s, instanceId |-> <<"i1", "i2", "i3">>[k],
   address |-> <<"h1", "h2", "h3">>[k], port |-> 9090, metadata |-> {}]
InstanceList(s, n) == [k \in 1..n |-> InstanceAt(s, k)]
NoInstance == [serviceName |-> "", instanceId |-> "", address |-> "", port |-> 0, metadata |-> {}]

\* A client as New leaves it, its balancer round-robin, the lists ls being
\* what Select will be given, its options o; clocked says whether the times
\* of the health ticker are followed.
Threads == 0..MaxLoops
NoRPC == [op |-> "none", req |-> NoInstance]
ClientWith(ls, o, clocked) ==
  /\ index = EmptyMap
  /\ lists = ls
  /\ selects = [s \in Services |-> 0]
  /\ picked = [s \in Services |-> NoInstance]
  /\ cli = [serviceName |-> "", instanceID |-> "", address |-> "", port |-> 0]
  /\ healthCheckCtx = 0
  /\ cancelled = {}
  /\ loops = <<>>
  /\ upc = "idle"
  /\ ures = "none"
  /\ rpc = [t \in Threads |-> NoRPC]
  /\ quiet = FALSE
  /\ reregistered = <<>>
  /\ ucalls = 0
  /\ ccache = EmptyMap
  /\ dname = ""
  /\ dinst = <<>>
  /\ ustamp = 0
  /\ connCloses = 0
  /\ lc = [at |-> "idle", instances |-> <<>>, minConns |-> 0, selected |-> NoInstance,
           read |-> <<>>, n |-> 0]
  /\ health = [TTL |-> o.TTL, HealthCheckInterval |-> o.HealthCheckInterval,
               interval |-> 0, next |-> 0, clocked |-> clocked]

\* defaultOptions(): the interval of the health checks is left to be calculated.
defaultOptions == [TTL |-> ClientTTL, HealthCheckInterval |-> 0]
ClientInit(ls) == ClientWith(ls, defaultOptions, FALSE)
NewClient == ClientInit([s \in Services |-> <<>>])

\* The state NewServer(b.cfg) leaves, the store holding the records store.
Constructed(b, store) ==
  LET srv == NewServer(b.cfg, b.connectOK, b.loadOK, store) IN
  /\ boot = b
  /\ inMemory = srv.inMemory
  /\ janitors = srv.janitors
  /\ refreshers = srv.refreshers
  /\ inMemoryInstances = EmptyMap
  /\ services = srv.services
  /\ etcd = store
  /\ mu = {}
  /\ now = 0
  /\ janitorNext = Half
  /\ refreshNext = Half
  /\ refresher = "wait"
  /\ newCache = EmptyMap
  /\ pc = [p \in Procs |-> "idle"]
  /\ call = [p \in Procs |-> NoCall]
  /\ lease = [p \in Procs |-> 0]
  /\ resp = [p \in Procs |-> NoResp]
  /\ storeOK = [p \in Procs |-> TRUE]
  /\ calls = 0
  /\ lastReg = EmptyMap
  /\ expired = {}
  /\ deregistered = EmptyMap
  /\ ctx = [done |-> FALSE, exited |-> {}]
  /\ NewConnectionPool

\* The counters of the refresher at zero, not followed.
NoMetrics == [on |-> FALSE, cacheRefreshCounter |-> 0, cacheRefreshErrors |-> 0]

\* sync when the store is not tracked.
NoSync == [on |-> FALSE, at |-> -1, failed |-> FALSE]

\* A server of either mode over an empty store.
InitServer ==
  /\ \E b \in PlainBoots : Constructed(b, EmptyMap)
  /\ sync = NoSync
  /\ metrics = NoMetrics
  /\ NewClient

\* RPCs issued one after another, no credentials configured.
Init == InitServer /\ authToken = "" /\ concurrent = FALSE

(***************************************************************************)
(* The start and the end of an RPC                                         *)
(***************************************************************************)
InFlight(p) == pc[p] \notin {"idle", "done"}

\* A goroutine may take up a request.
CanStart(p) ==
  /\ pc[p] = "idle"
  /\ calls < MaxCalls
  /\ concurrent \/ p = "p1"

\* Calls of op for key k that are inside the handler.
OpInFlight(op, k) ==
  \E q \in Procs : InFlight(q) /\ call[q].op = op /\ KeyOf(call[q].req) = k

\* call, with p serving c and the calls of op for key k inside their handler
\* marked as overlapped when mark holds.
Calling(p, c, mark, op, k) ==
  [q \in Procs |->
     IF q = p THEN c
     ELSE IF mark /\ InFlight(q) /\ call[q].op = op /\ KeyOf(call[q].req) = k
          THEN [call[q] EXCEPT !.clean = FALSE]
          ELSE call[q]]

Issue(p) ==
  /\ CanStart(p)
  /\ calls' = calls + 1

\* The response is handed to the caller.
Return(p) ==
  /\ pc[p] = "done"
  /\ pc' = [pc EXCEPT ![p] = "idle"]
  /\ call' = [call EXCEPT ![p] = NoCall]
  /\ resp' = [resp EXCEPT ![p] = NoResp]
  /\ lease' = [lease EXCEPT ![p] = 0]
  /\ storeOK' = [storeOK EXCEPT ![p] = TRUE]
  /\ UNCHANGED <<poolVars, clientVars, inMemory, authToken, inMemoryInstances, services, etcd, mu, now,
                 janitorNext, refreshNext, refresher, newCache, concurrent, boot,
                 janitors, refreshers, metrics, ctx, sync, calls, lastReg, expired, deregistered>>


Done(p, r) == pc' = [pc EXCEPT ![p] = "done"] /\ resp' = [resp EXCEPT ![p] = r]
Goto(p, l) == pc' = [pc EXCEPT ![p] = l] /\ UNCHANGED resp
Failed(p) == storeOK' = [storeOK EXCEPT ![p] = FALSE]

\* sync is the time of the first change of the store that no successful
\* prefix get has seen, and whether a get has failed since.
Tracked ==
  sync' = IF sync.on /\ etcd' # etcd /\ sync.at < 0 THEN [sync EXCEPT !.at = now] ELSE sync

\* What no handler changes.
Fixed ==
  /\ UNCHANGED <<poolVars, clientVars, inMemory, authToken, now, janitorNext, refreshNext, refresher,
                 newCache, concurrent, boot, janitors, refreshers, metrics, ctx>>
  /\ Tracked
\* The same, and the keys the janitor removed.
FixedAll == Fixed /\ UNCHANGED expired

(***************************************************************************)
(* Server.Register, up to its first etcd call: the interceptor, the check  *)
(* of the fields, then either the whole in-memory branch under s.mu or     *)
(* the lease grant.                                                        *)
(***************************************************************************)
Register(p, req, md) ==
  LET k == KeyOf(req)
      auth == AuthInterceptor(authToken, md)
      handled == auth = "OK" /\ ~InvalidRegistration(req)
  IN
  /\ Issue(p)
  /\ call' = Calling(p, [op |-> "Register", req |-> req, md |-> md,
                          clean |-> ~OpInFlight("Deregister", k)],
                      handled, "Deregister", k)
  /\ deregistered' = IF handled THEN MapDel(deregistered, k) ELSE deregistered
  /\ expired' = IF handled /\ inMemory THEN expired \ {k} ELSE expired
  /\ IF auth # "OK" THEN
       /\ Done(p, Error(auth))
       /\ UNCHANGED <<inMemoryInstances, services, etcd, mu, lease, storeOK, lastReg>>
     ELSE IF InvalidRegistration(req) THEN
       /\ Done(p, Error("InvalidArgument"))
       /\ UNCHANGED <<inMemoryInstances, services, etcd, mu, lease, storeOK, lastReg>>
     ELSE IF inMemory THEN
       /\ mu = {}
       /\ inMemoryInstances' =
            Put2(inMemoryInstances, req.serviceName, req.instanceId,
                 [registration |-> req, lastSeen |-> now])
       /\ Done(p, Success)
       /\ lastReg' = MapPut(lastReg, k, req)
       /\ UNCHANGED <<services, etcd, mu, lease, storeOK>>
     ELSE
       \E ok \in BOOLEAN :
         /\ IF ok
            THEN /\ lease' = [lease EXCEPT ![p] = now + CacheTTL]
                 /\ Goto(p, "reg_put")
                 /\ UNCHANGED storeOK
            ELSE /\ Done(p, Error("Internal"))
                 /\ Failed(p)
                 /\ UNCHANGED lease
         /\ UNCHANGED <<inMemoryInstances, services, etcd, mu, lastReg>>
  /\ Fixed

\* A faulty variant: the view is updated before the put is known to have
\* succeeded.
RegisterPutEager(p) ==
  LET req == call[p].req IN
  /\ pc[p] = "reg_put"
  /\ services' = Put2(services, req.serviceName, req.instanceId, req)
  /\ \E ok \in BOOLEAN :
       /\ ok => now < lease[p]
       /\ IF ok
          THEN /\ etcd' = MapPut(etcd, KeyOf(req), [value |-> Marshal(req), expiry |-> lease[p]])
               /\ Goto(p, "reg_commit")
               /\ UNCHANGED storeOK
          ELSE /\ Done(p, Error("Internal"))
               /\ Failed(p)
               /\ UNCHANGED etcd
  /\ UNCHANGED <<inMemoryInstances, mu, lease, call, calls, lastReg, deregistered>>
  /\ FixedAll

\* s.etcdClient.Put(ctx, key, jsonData, WithLease): it fails when the lease
\* has expired, and may fail for any other reason.
RegisterPut(p) ==
  /\ pc[p] = "reg_put"
  /\ \E ok \in BOOLEAN :
       /\ ok => now < lease[p]
       /\ IF ok
          THEN /\ etcd' = MapPut(etcd, KeyOf(call[p].req),
                                 [value |-> Marshal(call[p].req), expiry |-> lease[p]])
               /\ Goto(p, "reg_commit")
               /\ UNCHANGED storeOK
          ELSE /\ Done(p, Error("Internal"))
               /\ Failed(p)
               /\ UNCHANGED etcd
  /\ UNCHANGED <<inMemoryInstances, services, mu, lease, call, calls, lastReg, deregistered>>
  /\ FixedAll

\* s.mu.Lock(); s.services[name][id] = req; return success.
RegisterCommit(p) ==
  LET req == call[p].req IN
  /\ pc[p] = "reg_commit"
  /\ mu = {}
  /\ services' = Put2(services, req.serviceName, req.instanceId, req)
  /\ Done(p, Success)
  /\ lastReg' = IF call[p].clean THEN MapPut(lastReg, KeyOf(req), req) ELSE lastReg
  /\ UNCHANGED <<inMemoryInstances, etcd, mu, lease, storeOK, call, calls, deregistered>>
  /\ FixedAll

(***************************************************************************)
(* Server.Discover: under s.mu.RLock, the instances of the service in the  *)
(* order the range over the map visits them.                               *)
(***************************************************************************)
Instances(s) ==
  IF inMemory
  THEN IF s \in DOMAIN inMemoryInstances
       THEN [i \in DOMAIN inMemoryInstances[s] |-> inMemoryInstances[s][i].registration]
       ELSE EmptyMap
  ELSE IF s \in DOMAIN services THEN services[s] ELSE EmptyMap

Discover(p, req, md) ==
  LET auth == AuthInterceptor(authToken, md)
      found == Instances(req.serviceName)
  IN
  /\ Issue(p)
  /\ call' = [call EXCEPT ![p] = [op |-> "Discover", req |-> req, md |-> md, clean |-> TRUE]]
  /\ IF auth # "OK" THEN Done(p, Error(auth))
     ELSE /\ mu = {}
          /\ \E order \in Perms(DOMAIN found) :
               Done(p, ServiceList([n \in 1..Len(order) |-> found[order[n]]]))
  /\ UNCHANGED <<inMemoryInstances, services, etcd, mu, lease, storeOK, lastReg, deregistered>>
  /\ FixedAll


\* A faulty variant: lastSeen is left as it was.
TouchNot(m, s, i, t) == m

(***************************************************************************)
(* Server.HealthCheck: the whole handler runs under s.mu.Lock, the lease   *)
(* grant and the put of the store-backed branch included.                  *)
(***************************************************************************)
\* info.lastSeen = time.Now()
Touch(m, s, i, t) == [m EXCEPT ![s][i].lastSeen = t]

HealthCheck(p, req, md) ==
  LET auth == AuthInterceptor(authToken, md)
      s == req.serviceName
      i == req.instanceId
  IN
  /\ Issue(p)
  /\ call' = [call EXCEPT ![p] = [op |-> "HealthCheck", req |-> req, md |-> md, clean |-> TRUE]]
  /\ IF auth # "OK" THEN
       /\ Done(p, Error(auth))
       /\ UNCHANGED <<inMemoryInstances, mu, lease, storeOK>>
     ELSE IF inMemory THEN
       /\ mu = {}
       /\ IF Has2(inMemoryInstances, s, i)
          THEN /\ inMemoryInstances' = Touch(inMemoryInstances, s, i, now)
               /\ Done(p, HealthResponse("HEALTHY"))
          ELSE /\ Done(p, HealthResponse("UNHEALTHY"))
               /\ UNCHANGED inMemoryInstances
       /\ UNCHANGED <<mu, lease, storeOK>>
     ELSE
       /\ mu = {}
       /\ IF Has2(services, s, i)
          THEN \E ok \in BOOLEAN :
                 IF ok
                 THEN /\ lease' = [lease EXCEPT ![p] = now + CacheTTL]
                      /\ mu' = {p}
                      /\ Goto(p, "hc_put")
                      /\ UNCHANGED storeOK
                 ELSE /\ Done(p, HealthResponse("UNHEALTHY"))
                      /\ Failed(p)
                      /\ UNCHANGED <<mu, lease>>
          ELSE /\ Done(p, HealthResponse("UNHEALTHY"))
               /\ UNCHANGED <<mu, lease, storeOK>>
       /\ UNCHANGED inMemoryInstances
  /\ UNCHANGED <<services, etcd, lastReg, deregistered>>
  /\ FixedAll

\* The put of the existing value under the new lease; its error is logged
\* and the response is HEALTHY either way. The deferred Unlock follows.
HealthCheckPut(p) ==
  LET req == call[p].req IN
  /\ pc[p] = "hc_put"
  /\ \E ok \in BOOLEAN :
       /\ ok => now < lease[p]
       /\ IF ok
          THEN /\ etcd' = MapPut(etcd, KeyOf(req),
                                 [value |-> Marshal(services[req.serviceName][req.instanceId]),
                                  expiry |-> lease[p]])
               /\ UNCHANGED storeOK
          ELSE /\ Failed(p)
               /\ UNCHANGED etcd
  /\ Done(p, HealthResponse("HEALTHY"))
  /\ mu' = {}
  /\ UNCHANGED <<inMemoryInstances, services, lease, call, calls, lastReg, deregistered>>
  /\ FixedAll

(***************************************************************************)
(* Server.Deregister: the in-memory branch under s.mu, or the delete of    *)
(* the store key, followed by the removal from s.services under s.mu.      *)
(***************************************************************************)
Deregister(p, req, md) ==
  LET auth == AuthInterceptor(authToken, md)
      k == KeyOf(req)
  IN
  /\ Issue(p)
  /\ call' = Calling(p, [op |-> "Deregister", req |-> req, md |-> md,
                          clean |-> ~OpInFlight("Register", k)],
                      auth = "OK", "Register", k)
  /\ lastReg' = IF auth = "OK" THEN MapDel(lastReg, k) ELSE lastReg
  /\ IF auth # "OK" THEN
       /\ Done(p, Error(auth))
       /\ UNCHANGED <<inMemoryInstances, etcd, storeOK, deregistered>>
     ELSE IF inMemory THEN
       /\ mu = {}
       /\ inMemoryInstances' = Del2(inMemoryInstances, req.serviceName, req.instanceId)
       /\ Done(p, Success)
       /\ deregistered' = MapPut(deregistered, k, Has2(inMemoryInstances, k[1], k[2]))
       /\ UNCHANGED <<etcd, storeOK>>
     ELSE
       \E ok \in BOOLEAN :
         /\ IF ok
            THEN /\ etcd' = MapDel(etcd, k)
                 /\ Goto(p, "dereg_commit")
                 /\ UNCHANGED storeOK
            ELSE /\ Done(p, Error("Internal"))
                 /\ Failed(p)
                 /\ UNCHANGED etcd
         /\ UNCHANGED <<inMemoryInstances, deregistered>>
  /\ UNCHANGED <<services, mu, lease>>
  /\ FixedAll

DeregisterCommit(p) ==
  LET req == call[p].req IN
  /\ pc[p] = "dereg_commit"
  /\ mu = {}
  /\ services' = Del2(services, req.serviceName, req.instanceId)
  /\ Done(p, Success)
  /\ deregistered' = IF call[p].clean
                     THEN MapPut(deregistered, KeyOf(req),
                                 Has2(services, req.serviceName, req.instanceId))
                     ELSE deregistered
  /\ UNCHANGED <<inMemoryInstances, etcd, mu, lease, storeOK, call, calls, lastReg>>
  /\ FixedAll

\* A faulty variant: an instance is expired as soon as it is cacheTTL old.
ExpiredAtTTL(info, t) == t - info.lastSeen >= CacheTTL

(***************************************************************************)
(* The janitor (in-memory mode): time.After(ttl / 2), then                 *)
(* cleanupExpiredInstances under s.mu.                                     *)
(***************************************************************************)
Expired(info, t) == t - info.lastSeen > CacheTTL

cleanupExpiredInstances(m, t) ==
  LET kept(s) == { i \in DOMAIN m[s] : ~Expired(m[s][i], t) }
  IN  [s \in { x \in DOMAIN m : kept(x) # {} } |-> [i \in kept(s) |-> m[s][i]]]

startJanitor ==
  /\ janitors > 0
  /\ "janitor" \notin ctx.exited
  /\ now >= janitorNext
  /\ mu = {}
  /\ inMemoryInstances' = cleanupExpiredInstances(inMemoryInstances, now)
  /\ janitorNext' = now + Half
  /\ lastReg' = [k \in { x \in DOMAIN lastReg : Has2(inMemoryInstances', x[1], x[2]) }
                   |-> lastReg[k]]
  /\ expired' = expired \cup { k \in Keys : /\ Has2(inMemoryInstances, k[1], k[2])
                                            /\ ~Has2(inMemoryInstances', k[1], k[2]) }
  /\ UNCHANGED <<poolVars, clientVars, inMemory, authToken, services, etcd, mu, now, refreshNext, refresher,
                 newCache, pc, call, lease, resp, storeOK, concurrent, boot, janitors,
                 refreshers, metrics, ctx, sync, calls, deregistered>>

\* The janitor's select takes <-s.ctx.Done() and the goroutine returns.
janitorExit ==
  /\ janitors > 0
  /\ "janitor" \notin ctx.exited
  /\ ctx.done
  /\ ctx' = [ctx EXCEPT !.exited = @ \cup {"janitor"}]
  /\ UNCHANGED <<poolVars, clientVars, inMemory, authToken, inMemoryInstances, services, etcd,
                 mu, now, janitorNext, refreshNext, refresher, newCache, pc, call, lease,
                 resp, storeOK, concurrent, boot, janitors, refreshers, metrics, sync, calls,
                 lastReg, expired, deregistered>>

(***************************************************************************)
(* The cache refresher (store-backed mode): on each tick of its ticker,    *)
(* refreshCache: the prefix get, newCache built from the values that       *)
(* parse, then the swap under s.mu.                                        *)
(***************************************************************************)
\* A faulty variant: a failed prefix get is not counted.
countRefreshNoErrors(m, ok, canceled) ==
  IF ~m.on THEN m ELSE [m EXCEPT !.cacheRefreshCounter = @ + 1]

\* What refreshCache does to the counters: every call is counted, and a
\* prefix get that failed with an error other than context.Canceled.
countRefresh(m, ok, canceled) ==
  IF ~m.on THEN m
  ELSE [m EXCEPT !.cacheRefreshCounter = @ + 1,
                 !.cacheRefreshErrors = IF ~ok /\ ~canceled THEN @ + 1 ELSE @]

\* The ticker fired: refreshCache up to its swap. The prefix get fails once
\* s.ctx is cancelled, and only then its error may be context.Canceled.
refreshCache ==
  /\ refreshers > 0
  /\ ~inMemory
  /\ "refresher" \notin ctx.exited
  /\ refresher = "wait"
  /\ now >= refreshNext
  /\ refreshNext' = refreshNext + Half
  /\ \E ok \in BOOLEAN, canceled \in BOOLEAN :
       /\ ctx.done => ~ok
       /\ canceled => (ctx.done /\ ~ok)
       /\ metrics' = countRefresh(metrics, ok, canceled)
       /\ IF ok
          THEN /\ newCache' = BuildCache(etcd)
               /\ refresher' = "swap"
               /\ sync' = [sync EXCEPT !.at = -1, !.failed = FALSE]
          ELSE /\ UNCHANGED <<newCache, refresher>>
               /\ sync' = [sync EXCEPT !.failed = sync.on /\ sync.at >= 0]
  /\ UNCHANGED <<poolVars, clientVars, inMemory, authToken, inMemoryInstances, services, etcd, mu, now,
                 janitorNext, pc, call, lease, resp, storeOK, concurrent, boot, janitors,
                 refreshers, ctx, calls, lastReg,
                 expired, deregistered>>

\* The refresher's select takes <-s.ctx.Done() and the goroutine returns.
refresherExit ==
  /\ refreshers > 0
  /\ ~inMemory
  /\ "refresher" \notin ctx.exited
  /\ refresher = "wait"
  /\ ctx.done
  /\ ctx' = [ctx EXCEPT !.exited = @ \cup {"refresher"}]
  /\ UNCHANGED <<poolVars, clientVars, inMemory, authToken, inMemoryInstances, services, etcd,
                 mu, now, janitorNext, refreshNext, refresher, newCache, pc, call, lease,
                 resp, storeOK, concurrent, boot, janitors, refreshers, metrics, sync, calls,
                 lastReg, expired, deregistered>>

\* Server.Close: s.cancel(), and the etcd client is closed.
ServerClose ==
  /\ ctx' = [ctx EXCEPT !.done = TRUE]
  /\ UNCHANGED <<poolVars, clientVars, inMemory, authToken, inMemoryInstances, services, etcd,
                 mu, now, janitorNext, refreshNext, refresher, newCache, pc, call, lease,
                 resp, storeOK, concurrent, boot, janitors, refreshers, metrics, sync, calls,
                 lastReg, expired, deregistered>>

\* A faulty variant: newCache is merged into s.services.
refreshSwapMerge ==
  /\ refresher = "swap"
  /\ mu = {}
  /\ services' = [s \in DOMAIN services \cup DOMAIN newCache |->
                    [i \in (IF s \in DOMAIN services THEN DOMAIN services[s] ELSE {})
                            \cup (IF s \in DOMAIN newCache THEN DOMAIN newCache[s] ELSE {}) |->
                       IF Has2(newCache, s, i) THEN newCache[s][i] ELSE services[s][i]]]
  /\ newCache' = EmptyMap
  /\ refresher' = "wait"
  /\ UNCHANGED <<poolVars, clientVars, inMemory, authToken, inMemoryInstances, etcd, mu, now, janitorNext,
                 refreshNext, pc, call, lease, resp, storeOK, concurrent, boot, janitors,
                 refreshers, metrics, ctx, sync, calls, lastReg, expired, deregistered>>

\* s.mu.Lock(); s.services = newCache; s.mu.Unlock()
refreshSwap ==
  /\ refresher = "swap"
  /\ mu = {}
  /\ services' = newCache
  /\ newCache' = EmptyMap
  /\ refresher' = "wait"
  /\ UNCHANGED <<poolVars, clientVars, inMemory, authToken, inMemoryInstances, etcd, mu, now, janitorNext,
                 refreshNext, pc, call, lease, resp, storeOK, concurrent, boot, janitors,
                 refreshers, metrics, ctx, sync, calls, lastReg,
                 expired, deregistered>>

(***************************************************************************)
(* The environment: the clock, and etcd revoking a lease at its expiry.    *)
(* Timers are punctual: the clock does not pass a due timer or lease.      *)
(* Nor does it pass a loop that waits at its select with s.ctx cancelled.   *)
(***************************************************************************)
Tick ==
  /\ now < (IF inMemory THEN MaxTime ELSE MaxStoreTime)
  /\ (inMemory /\ "janitor" \notin ctx.exited) => now < janitorNext
  /\ (~inMemory /\ refresher = "wait" /\ "refresher" \notin ctx.exited) => now < refreshNext
  /\ (ctx.done /\ janitors > 0) => "janitor" \in ctx.exited
  /\ (ctx.done /\ refreshers > 0 /\ refresher = "wait") => "refresher" \in ctx.exited
  /\ \A k \in DOMAIN etcd : now < etcd[k].expiry
  /\ now' = now + 1
  /\ UNCHANGED <<poolVars, clientVars, inMemory, authToken, inMemoryInstances, services, etcd, mu, janitorNext,
                 refreshNext, refresher, newCache, pc, call, lease, resp, storeOK,
                 concurrent, boot, janitors, refreshers, metrics, ctx, sync, calls, lastReg, expired,
                 deregistered>>

LeaseExpire(k) ==
  /\ k \in DOMAIN etcd
  /\ now >= etcd[k].expiry
  /\ etcd' = MapDel(etcd, k)
  /\ UNCHANGED <<poolVars, clientVars, inMemory, authToken, inMemoryInstances, services, mu, now, janitorNext,
                 refreshNext, refresher, newCache, pc, call, lease, resp, storeOK,
                 concurrent, boot, janitors, refreshers, metrics, ctx, calls, lastReg, expired,
                 deregistered>>
  /\ Tracked

(***************************************************************************)
(* Specifications                                                          *)
(***************************************************************************)
\* The RPCs with requests and metadata drawn from the given sets, and what
\* runs beside them in both modes.
Serve(regs, ids, queries, mds) ==
  \/ \E p \in Procs, req \in regs, md \in mds : Register(p, req, md)
  \/ \E p \in Procs : RegisterPut(p)
  \/ \E p \in Procs : RegisterCommit(p)
  \/ \E p \in Procs, req \in queries, md \in mds : Discover(p, req, md)
  \/ \E p \in Procs, req \in ids, md \in mds : HealthCheck(p, req, md)
  \/ \E p \in Procs : HealthCheckPut(p)
  \/ \E p \in Procs, req \in ids, md \in mds : Deregister(p, req, md)
  \/ \E p \in Procs : DeregisterCommit(p)
  \/ \E p \in Procs : Return(p)
  \/ refreshCache
  \/ refreshSwap
  \/ Tick
  \/ \E k \in Keys : LeaseExpire(k)

Next ==
  \/ Serve(Registrations, InstanceIDs, ServiceQueries, {NoMD})
  \/ startJanitor

\* RPCs issued one after another in either mode, the janitor or the
\* refresher running beside them.
Spec == Init /\ [][Next]_vars

\* In-memory mode: RPCs served by concurrent goroutines, each handler under
\* s.mu from its first statement to its return, and the janitor.
InitMem == InitServer /\ inMemory /\ authToken = "" /\ concurrent = TRUE
NextMem ==
  \/ \E p \in Procs, req \in Registrations : Register(p, req, NoMD)
  \/ \E p \in Procs, req \in ServiceQueries : Discover(p, req, NoMD)
  \/ \E p \in Procs, req \in InstanceIDs : HealthCheck(p, req, NoMD)
  \/ \E p \in Procs, req \in InstanceIDs : Deregister(p, req, NoMD)
  \/ \E p \in Procs : Return(p)
  \/ startJanitor
  \/ Tick
SpecMem == InitMem /\ [][NextMem]_vars

\* Store-backed mode: RPCs for one instance served by concurrent goroutines,
\* the refresher running beside them.
ConcRegs == { r \in ValidRegs : KeyOf(r) = <<"a", "i1">> }
ConcIDs == { [serviceName |-> "a", instanceId |-> "i1"] }
ConcQueries == { [serviceName |-> "a", healthyOnly |-> TRUE] }

InitConc == InitServer /\ ~inMemory /\ authToken = "" /\ concurrent = TRUE
NextConc == Serve(ConcRegs, ConcIDs, ConcQueries, {NoMD})
SpecConc == InitConc /\ [][NextConc]_vars


\* Credentials configured or not, requests with every kind of metadata, for
\* one instance, issued one after another.
AuthRegs ==
  { MakeReg("a", "i1", [address |-> "h1", port |-> 8080, metadata |-> {}]) }
    \cup InvalidRegs

InitAuth == InitServer /\ authToken \in AuthTokens /\ concurrent = FALSE
NextAuth ==
  \/ Serve(AuthRegs, ConcIDs, ConcQueries, MDs)
  \/ startJanitor
SpecAuth == InitAuth /\ [][NextAuth]_vars

\* What the store may hold under /services/ when NewServer runs: records
\* written by another server under a lease of cacheTTL, one of them not JSON.
Garbage == <<"not json">>
StoredRecord(k, bytes) == [value |-> bytes, expiry |-> CacheTTL]
Stores ==
  LET r2 == StoredRecord(<<"a", "i2">>,
                         Marshal(MakeReg("a", "i2", [address |-> "h2", port |-> 9090,
                                                      metadata |-> {}])))
      g1 == StoredRecord(<<"a", "i1">>, Garbage)
  IN  { EmptyMap,
        [k \in {<<"a", "i2">>} |-> r2],
        [k \in {<<"a", "i1">>, <<"a", "i2">>} |-> IF k = <<"a", "i1">> THEN g1 ELSE r2] }

\* NewServer going every way it may, then RPCs for one instance issued one
\* after another, with the janitor or the refresher that was started.
InitNew ==
  /\ \E b \in Boots, store \in Stores : Constructed(b, store)
  /\ sync = NoSync
  /\ metrics = NoMetrics
  /\ NewClient
  /\ authToken = ""
  /\ concurrent = FALSE
NextNew ==
  \/ Serve(ConcRegs, ConcIDs, ConcQueries, {NoMD})
  \/ startJanitor
SpecNew == InitNew /\ [][NextNew]_vars

\* Another writer of the store: a put of a record under a lease of cacheTTL,
\* or a delete.
ExternalPut(k, bytes) ==
  /\ etcd' = MapPut(etcd, k, [value |-> bytes, expiry |-> now + CacheTTL])
  /\ UNCHANGED <<poolVars, clientVars, inMemory, authToken, inMemoryInstances, services, mu, now, janitorNext,
                 refreshNext, refresher, newCache, pc, call, lease, resp, storeOK,
                 concurrent, boot, janitors, refreshers, metrics, ctx, calls, lastReg, expired,
                 deregistered>>
  /\ Tracked

ExternalDelete(k) ==
  /\ k \in DOMAIN etcd
  /\ etcd' = MapDel(etcd, k)
  /\ UNCHANGED <<poolVars, clientVars, inMemory, authToken, inMemoryInstances, services, mu, now, janitorNext,
                 refreshNext, refresher, newCache, pc, call, lease, resp, storeOK,
                 concurrent, boot, janitors, refreshers, metrics, ctx, calls, lastReg, expired,
                 deregistered>>
  /\ Tracked

\* Store-backed mode over a store that other writers change, the refresher
\* running; the changes of the store are tracked.
InitSync ==
  /\ \E b \in PlainBoots, store \in Stores : Constructed(b, store)
  /\ ~inMemory
  /\ sync = [on |-> TRUE, at |-> -1, failed |-> FALSE]
  /\ metrics = NoMetrics
  /\ NewClient
  /\ authToken = ""
  /\ concurrent = FALSE
NextSync ==
  \/ \E k \in Keys, r \in ValidRegs : KeyOf(r) = k /\ ExternalPut(k, Marshal(r))
  \/ \E k \in Keys : ExternalPut(k, Garbage)
  \/ \E k \in Keys : ExternalDelete(k)
  \/ \E k \in Keys : LeaseExpire(k)
  \/ refreshCache
  \/ refreshSwap
  \/ Tick
SpecSync == InitSync /\ [][NextSync]_vars

\* The same, the counters of the refresher followed instead of the changes
\* of the store.
InitRefresh ==
  /\ \E b \in PlainBoots, store \in Stores : Constructed(b, store)
  /\ ~inMemory
  /\ sync = NoSync
  /\ metrics = [NoMetrics EXCEPT !.on = TRUE]
  /\ NewClient
  /\ authToken = ""
  /\ concurrent = FALSE
NextRefresh ==
  \/ \E k \in Keys, r \in ValidRegs : KeyOf(r) = k /\ ExternalPut(k, Marshal(r))
  \/ \E k \in Keys : ExternalPut(k, Garbage)
  \/ \E k \in Keys : ExternalDelete(k)
  \/ \E k \in Keys : LeaseExpire(k)
  \/ refreshCache
  \/ refreshSwap
  \/ Tick
SpecRefresh == InitRefresh /\ [][NextRefresh]_vars

\* A server of either mode that serves RPCs and is closed at any moment, its
\* janitor or refresher running until it sees the cancellation.
InitShutdown ==
  /\ \E b \in PlainBoots, store \in Stores : Constructed(b, store)
  /\ sync = NoSync
  /\ metrics = NoMetrics
  /\ NewClient
  /\ authToken = ""
  /\ concurrent = FALSE
NextShutdown ==
  \/ Serve(ConcRegs, ConcIDs, ConcQueries, {NoMD})
  \/ startJanitor
  \/ janitorExit
  \/ refresherExit
  \/ ServerClose
SpecShutdown == InitShutdown /\ [][NextShutdown]_vars

(***************************************************************************)
(* The client's connection pool                                            *)
(***************************************************************************)

\* pooledConnection.Close: the ClientConn is closed when the count, one
\* less, is not positive.
pooledConnectionClose(c) ==
  LET n == c.refCount - 1 IN
  [c EXCEPT !.refCount = n, !.closes = IF n <= 0 THEN @ + 1 ELSE @]

\* pooledConnection.GetState: a closed ClientConn is in Shutdown.
GetState(c) == IF c.closes > 0 THEN "SHUTDOWN" ELSE c.state

\* ConnectionPool.ConnectionCount
ConnectionCount(a) == IF a \in DOMAIN conns THEN pcs[conns[a]].refCount ELSE 0

\* The other goroutine waits for the write lock with a Get of address a.
OtherWaits(p, a) == \E q \in Procs \ {p} : gpc[q] = "slow" /\ gaddr[q] = a

\* Get, under the read lock: the entry with its count raised, or on to the
\* write lock.
Get(p, a) ==
  /\ gpc[p] = "idle"
  /\ pcalls < MaxPoolCalls
  /\ pcalls' = pcalls + 1
  /\ gaddr' = [gaddr EXCEPT ![p] = a]
  /\ raced' = [raced EXCEPT ![p] = FALSE]
  /\ IF a \in DOMAIN conns
     THEN /\ pcs' = [pcs EXCEPT ![conns[a]].refCount = @ + 1, ![conns[a]].gets = @ + 1]
          /\ gres' = [gres EXCEPT ![p] = conns[a]]
          /\ held' = [held EXCEPT ![p][a] = @ + 1]
          /\ UNCHANGED gpc
     ELSE /\ gpc' = [gpc EXCEPT ![p] = "slow"]
          /\ gres' = [gres EXCEPT ![p] = -1]
          /\ UNCHANGED <<pcs, held>>
  /\ UNCHANGED <<conns, monitor, dials, closings, serverVars, clientVars>>

\* A faulty variant: no second look at the map under the write lock.
GetLockedNoRecheck(p) ==
  /\ gpc[p] = "slow"
  /\ gpc' = [gpc EXCEPT ![p] = "idle"]
  /\ LET a == gaddr[p] IN
     \E outcome \in {"ok", "dial failed", "no credentials"} :
       /\ outcome = "ok" => Len(pcs) < MaxDials
       /\ dials' = IF outcome = "no credentials" THEN dials
                   ELSE [dials EXCEPT ![a] = @ + 1]
       /\ IF outcome = "ok"
          THEN /\ pcs' = Append(pcs, [address |-> a, refCount |-> 1, gets |-> 1, releases |-> 0, closes |-> 0,
                                       state |-> "READY"])
               /\ conns' = MapPut(conns, a, Len(pcs) + 1)
               /\ monitor' = Append(monitor, "tick")
               /\ gres' = [gres EXCEPT ![p] = Len(pcs) + 1]
               /\ held' = [held EXCEPT ![p][a] = @ + 1]
               /\ raced' = [raced EXCEPT ![p] = OtherWaits(p, a)]
          ELSE /\ gres' = [gres EXCEPT ![p] = 0]
               /\ UNCHANGED <<pcs, conns, monitor, held, raced>>
  /\ UNCHANGED <<gaddr, closings, pcalls, serverVars, clientVars>>

\* Get, under the write lock: the entry if there is one by now, else the
\* credentials, the dial, the new entry with count 1 and its monitor.
GetLocked(p) ==
  /\ gpc[p] = "slow"
  /\ gpc' = [gpc EXCEPT ![p] = "idle"]
  /\ LET a == gaddr[p] IN
     IF a \in DOMAIN conns
     THEN /\ pcs' = [pcs EXCEPT ![conns[a]].refCount = @ + 1, ![conns[a]].gets = @ + 1]
          /\ gres' = [gres EXCEPT ![p] = conns[a]]
          /\ held' = [held EXCEPT ![p][a] = @ + 1]
          /\ UNCHANGED <<conns, monitor, dials, raced>>
     ELSE \E outcome \in {"ok", "dial failed", "no credentials"} :
            /\ outcome = "ok" => Len(pcs) < MaxDials
            /\ dials' = IF outcome = "no credentials" THEN dials
                        ELSE [dials EXCEPT ![a] = @ + 1]
            /\ IF outcome = "ok"
               THEN /\ pcs' = Append(pcs, [address |-> a, refCount |-> 1, gets |-> 1, releases |-> 0, closes |-> 0,
                                            state |-> "READY"])
                    /\ conns' = MapPut(conns, a, Len(pcs) + 1)
                    /\ monitor' = Append(monitor, "tick")
                    /\ gres' = [gres EXCEPT ![p] = Len(pcs) + 1]
                    /\ held' = [held EXCEPT ![p][a] = @ + 1]
                    /\ raced' = [raced EXCEPT ![p] = OtherWaits(p, a)]
               ELSE /\ gres' = [gres EXCEPT ![p] = 0]
                    /\ UNCHANGED <<pcs, conns, monitor, held, raced>>
  /\ UNCHANGED <<gaddr, closings, pcalls, serverVars, clientVars>>

\* A faulty variant: the count is not lowered below zero.
ReleaseFloor(p, a) ==
  /\ gpc[p] = "idle"
  /\ held[p][a] > 0
  /\ pcalls < MaxPoolCalls
  /\ pcalls' = pcalls + 1
  /\ held' = [held EXCEPT ![p][a] = @ - 1]
  /\ raced' = [raced EXCEPT ![p] = FALSE]
  /\ pcs' = IF a \in DOMAIN conns
            THEN [pcs EXCEPT ![conns[a]].refCount = IF @ > 0 THEN @ - 1 ELSE @,
                             ![conns[a]].releases = @ + 1]
            ELSE pcs
  /\ UNCHANGED <<conns, monitor, gpc, gaddr, gres, dials, closings, serverVars, clientVars>>

\* Release, by a goroutine for a Get of its own.
Release(p, a) ==
  /\ gpc[p] = "idle"
  /\ held[p][a] > 0
  /\ pcalls < MaxPoolCalls
  /\ pcalls' = pcalls + 1
  /\ held' = [held EXCEPT ![p][a] = @ - 1]
  /\ raced' = [raced EXCEPT ![p] = FALSE]
  /\ pcs' = IF a \in DOMAIN conns
            THEN [pcs EXCEPT ![conns[a]].refCount = @ - 1, ![conns[a]].releases = @ + 1]
            ELSE pcs
  /\ UNCHANGED <<conns, monitor, gpc, gaddr, gres, dials, closings, serverVars, clientVars>>

\* ConnectionPool.Close
Close ==
  /\ closings < MaxCloses
  /\ closings' = closings + 1
  /\ pcs' = [c \in DOMAIN pcs |->
               IF \E a \in DOMAIN conns : conns[a] = c
               THEN pooledConnectionClose(pcs[c]) ELSE pcs[c]]
  /\ conns' = EmptyMap
  /\ UNCHANGED <<monitor, gpc, gaddr, gres, held, dials, raced, pcalls, serverVars, clientVars>>

\* monitorConnection at a tick: on to the write lock when the count is zero
\* and the connection Ready.
monitorConnection(c) ==
  /\ monitor[c] = "tick"
  /\ pcs[c].refCount = 0
  /\ GetState(pcs[c]) = "READY"
  /\ monitor' = [monitor EXCEPT ![c] = "lock"]
  /\ UNCHANGED <<conns, pcs, gpc, gaddr, gres, held, dials, closings, raced, pcalls,
                 serverVars, clientVars>>

\* A faulty variant: the closed connection is left in the map.
monitorLockedKeep(c) ==
  /\ monitor[c] = "lock"
  /\ IF pcs[c].refCount = 0
     THEN /\ pcs' = [pcs EXCEPT ![c] = pooledConnectionClose(@)]
          /\ monitor' = [monitor EXCEPT ![c] = "exit"]
          /\ UNCHANGED conns
     ELSE /\ monitor' = [monitor EXCEPT ![c] = "tick"]
          /\ UNCHANGED <<pcs, conns>>
  /\ UNCHANGED <<gpc, gaddr, gres, held, dials, closings, raced, pcalls, serverVars, clientVars>>

\* monitorConnection under the write lock: when the count is still zero,
\* pc.Close(), delete(p.conns, address) and return.
monitorLocked(c) ==
  /\ monitor[c] = "lock"
  /\ IF pcs[c].refCount = 0
     THEN /\ pcs' = [pcs EXCEPT ![c] = pooledConnectionClose(@)]
          /\ conns' = MapDel(conns, pcs[c].address)
          /\ monitor' = [monitor EXCEPT ![c] = "exit"]
     ELSE /\ monitor' = [monitor EXCEPT ![c] = "tick"]
          /\ UNCHANGED <<pcs, conns>>
  /\ UNCHANGED <<gpc, gaddr, gres, held, dials, closings, raced, pcalls, serverVars, clientVars>>

\* The transport of an open connection leaves Ready or comes back to it.
StateChange(c) ==
  /\ pcs[c].closes = 0
  /\ pcs' = [pcs EXCEPT ![c].state = IF @ = "READY" THEN "IDLE" ELSE "READY"]
  /\ UNCHANGED <<conns, monitor, gpc, gaddr, gres, held, dials, closings, raced, pcalls,
                 serverVars, clientVars>>

\* A pool used by two goroutines, its monitors running, closed at any time.
InitPool == InitServer /\ inMemory /\ authToken = "" /\ concurrent = TRUE
NextPool ==
  \/ \E p \in Procs, a \in Addresses : Get(p, a)
  \/ \E p \in Procs : GetLocked(p)
  \/ \E p \in Procs, a \in Addresses : Release(p, a)
  \/ Close
  \/ \E c \in DOMAIN pcs : monitorConnection(c)
  \/ \E c \in DOMAIN pcs : monitorLocked(c)
  \/ \E c \in DOMAIN pcs : StateChange(c)
SpecPool == InitPool /\ [][NextPool]_vars

(***************************************************************************)
(* The client's load balancer                                              *)
(***************************************************************************)

\* A faulty variant: one cursor for every service name.
roundRobinSelectShared(idx, serviceName, instances) ==
  IF Len(instances) = 0 THEN [selected |-> NoInstance, index |-> idx]
  ELSE LET i == IF "" \in DOMAIN idx THEN idx[""] ELSE 0 IN
       [selected |-> instances[(i % Len(instances)) + 1],
        index |-> MapPut(idx, "", (i + 1) % Len(instances))]

\* roundRobinBalancer.Select on the cursors idx: nil for an empty list, else
\* instances[idx % len] with the cursor of the name set to (idx + 1) % len.
roundRobinSelect(idx, serviceName, instances) ==
  IF Len(instances) = 0 THEN [selected |-> NoInstance, index |-> idx]
  ELSE LET i == IF serviceName \in DOMAIN idx THEN idx[serviceName] ELSE 0 IN
       [selected |-> instances[(i % Len(instances)) + 1],
        index |-> MapPut(idx, serviceName, (i + 1) % Len(instances))]

\* A call of the balancer's Select for service s with its list.
Select(s) ==
  LET r == roundRobinSelect(index, s, lists[s]) IN
  /\ selects[s] < MaxSelects
  /\ selects' = [selects EXCEPT ![s] = @ + 1]
  /\ picked' = [picked EXCEPT ![s] = r.selected]
  /\ index' = r.index
  /\ UNCHANGED <<lists, cli, healthCheckCtx, cancelled, loops, upc, ures, rpc, quiet,
                 reregistered, ucalls, useVars,
                 lc, health, serverVars, poolVars>>

\* A round-robin balancer that is given, for each service, one list of up to
\* three instances.
InitBalancer ==
  /\ \E b \in PlainBoots : Constructed(b, EmptyMap)
  /\ sync = NoSync
  /\ metrics = NoMetrics
  /\ inMemory
  /\ authToken = ""
  /\ concurrent = FALSE
  /\ \E n \in [Services -> 0..3] : ClientInit([s \in Services |-> InstanceList(s, n[s])])
NextBalancer == \E s \in Services : Select(s)
SpecBalancer == InitBalancer /\ [][NextBalancer]_vars

(***************************************************************************)
(* The client: Register, the health-check loop, Deregister                 *)
(***************************************************************************)

\* The goroutine of the server that serves the RPCs of a thread of the
\* client: one for the user, one for the loops.
ProcOf(t) == IF t = 0 THEN "p1" ELSE "p2"

\* A thread may send an RPC: the server has returned the previous one of its
\* connection, and no other loop has one in flight.
CanSend(t) ==
  /\ pc[ProcOf(t)] = "idle"
  /\ \A o \in Threads : ProcOf(o) = ProcOf(t) => rpc[o] = NoRPC

\* The reply of the server to the RPC of thread t has arrived.
Replied(t) == rpc[t] # NoRPC /\ pc[ProcOf(t)] = "done"

\* What the user passes to Register.
RegisterArgs ==
  { [serviceName |-> "a", address |-> "h2", port |-> 9090, metadata |-> {<<"env", "prod">>}],
    [serviceName |-> "", address |-> "h2", port |-> 9090, metadata |-> {}] }

\* The instanceID that Register makes of the host name and the clock.
NewInstanceID == "i1"

\* Client.Register up to its RPC: the fields are set, the instanceID is made
\* if there is none, the Registration is sent.
Registering(t, a) ==
  LET id == IF cli.instanceID = "" THEN NewInstanceID ELSE cli.instanceID IN
  /\ cli' = [serviceName |-> a.serviceName, instanceID |-> id,
             address |-> a.address, port |-> a.port]
  /\ rpc' = [rpc EXCEPT ![t] =
               [op |-> "Register",
                req |-> [serviceName |-> a.serviceName, instanceId |-> id,
                         address |-> a.address, port |-> a.port,
                         metadata |-> a.metadata]]]

InvalidArgs(a) == a.serviceName = "" \/ a.address = "" \/ a.port = 0

\* A faulty variant: cacheTTL / 3 is taken however small it is.
healthIntervalNoClamp(o) ==
  IF o.HealthCheckInterval # 0 THEN o.HealthCheckInterval ELSE o.TTL \div 3

\* The interval startHealthChecks gives its ticker: the configured one, or
\* TTL / 3 and at least five seconds.
healthInterval(o) ==
  IF o.HealthCheckInterval # 0 THEN o.HealthCheckInterval
  ELSE IF o.TTL \div 3 < FiveSeconds THEN FiveSeconds ELSE o.TTL \div 3

\* startHealthChecks, the loops being ls: nothing when there is a context,
\* else a new context and a loop goroutine for it with its ticker.
startHealthChecks(ls, rr) ==
  /\ healthCheckCtx = 0 => Len(loops) < MaxLoops
  /\ healthCheckCtx' = IF healthCheckCtx # 0 THEN healthCheckCtx ELSE Len(loops) + 1
  /\ loops' = IF healthCheckCtx # 0 THEN ls ELSE Append(ls, "wait")
  /\ reregistered' = IF healthCheckCtx # 0 THEN rr ELSE Append(rr, FALSE)
  /\ health' = IF healthCheckCtx # 0 THEN health
               ELSE [health EXCEPT !.interval = healthInterval(health),
                                   !.next = IF health.clocked
                                            THEN now + healthInterval(health) ELSE 0]

\* stopHealthChecks: the context, if any, is cancelled and forgotten.
stopHealthChecks ==
  /\ healthCheckCtx' = 0
  /\ cancelled' = IF healthCheckCtx # 0 THEN cancelled \cup {healthCheckCtx} ELSE cancelled

\* The user calls Register.
ClientRegister(a) ==
  /\ upc = "idle"
  /\ ucalls < MaxUserCalls
  /\ ucalls' = ucalls + 1
  /\ quiet' = FALSE
  /\ IF InvalidArgs(a)
     THEN /\ ures' = "invalid registration parameters"
          /\ UNCHANGED <<cli, rpc, upc>>
     ELSE /\ CanSend(0)
          /\ Registering(0, a)
          /\ upc' = "reg"
          /\ ures' = "none"
  /\ UNCHANGED <<index, lists, selects, picked, healthCheckCtx, cancelled, loops,
                 reregistered, useVars,
                 lc, health, serverVars, poolVars>>

\* The user's Register after its RPC: the error of the RPC, or
\* startHealthChecks and nil.
ClientRegisterDone ==
  /\ upc = "reg"
  /\ upc' = "idle"
  /\ rpc' = [rpc EXCEPT ![0] = NoRPC]
  /\ \E err \in BOOLEAN :
       /\ ~err => (Replied(0) /\ resp[ProcOf(0)].code = "OK")
       /\ IF err \/ ~resp[ProcOf(0)].success
          THEN /\ ures' = "registration failed"
               /\ UNCHANGED <<healthCheckCtx, loops, reregistered, health>>
          ELSE /\ ures' = "nil"
               /\ startHealthChecks(loops, reregistered)
  /\ UNCHANGED <<index, lists, selects, picked, cli, cancelled, quiet, ucalls,
                 useVars,
                 lc, serverVars, poolVars>>

\* A tick of a loop, the ticker having fired: sendHealthCheck up to its RPC.
sendHealthCheck(l) ==
  /\ loops[l] = "wait"
  /\ health.clocked => now >= health.next
  /\ health' = IF health.clocked
               THEN [health EXCEPT !.next = @ + health.interval] ELSE health
  /\ cli.serviceName # "" /\ cli.instanceID # ""
  /\ CanSend(l)
  /\ loops' = [loops EXCEPT ![l] = "hc"]
  /\ rpc' = [rpc EXCEPT ![l] =
               [op |-> "HealthCheck",
                req |-> [serviceName |-> cli.serviceName, instanceId |-> cli.instanceID]]]
  /\ UNCHANGED <<index, lists, selects, picked, cli, healthCheckCtx, cancelled, upc, ures,
                 quiet, reregistered, ucalls, useVars,
                 lc, serverVars, poolVars>>

\* sendHealthCheck after its RPC: on an error, on to reregister; the
\* response is not looked at.
sendHealthCheckDone(l) ==
  /\ loops[l] = "hc"
  /\ rpc' = [rpc EXCEPT ![l] = NoRPC]
  /\ \E err \in BOOLEAN :
       /\ ~err => (Replied(l) /\ resp[ProcOf(l)].code = "OK")
       /\ loops' = [loops EXCEPT ![l] = IF err THEN "failed" ELSE "wait"]
  /\ UNCHANGED <<index, lists, selects, picked, cli, healthCheckCtx, cancelled, upc, ures,
                 quiet, reregistered, ucalls, useVars,
                 lc, health, serverVars, poolVars>>

\* A faulty variant: the re-registration is made under a new instanceID.
reregisterFresh(l) ==
  /\ loops[l] = "failed"
  /\ cli.serviceName # ""
  /\ ~InvalidArgs([serviceName |-> cli.serviceName, address |-> cli.address,
                    port |-> cli.port])
  /\ CanSend(l)
  /\ cli' = [cli EXCEPT !.instanceID = "i2"]
  /\ rpc' = [rpc EXCEPT ![l] =
               [op |-> "Register",
                req |-> [serviceName |-> cli.serviceName, instanceId |-> "i2",
                         address |-> cli.address, port |-> cli.port, metadata |-> {}]]]
  /\ loops' = [loops EXCEPT ![l] = "rereg"]
  /\ reregistered' = [reregistered EXCEPT ![l] = TRUE]
  /\ UNCHANGED <<index, lists, selects, picked, healthCheckCtx, cancelled, upc, ures,
                 quiet, ucalls, useVars,
                 lc, health, serverVars, poolVars>>

\* reregister: Register(c.serviceName, c.address, c.port, nil) up to its RPC.
reregister(l) ==
  /\ loops[l] = "failed"
  /\ cli.serviceName # ""
  /\ ~InvalidArgs([serviceName |-> cli.serviceName, address |-> cli.address,
                    port |-> cli.port])
  /\ CanSend(l)
  /\ Registering(l, [serviceName |-> cli.serviceName, address |-> cli.address,
                      port |-> cli.port, metadata |-> {}])
  /\ loops' = [loops EXCEPT ![l] = "rereg"]
  /\ reregistered' = [reregistered EXCEPT ![l] = TRUE]
  /\ UNCHANGED <<index, lists, selects, picked, healthCheckCtx, cancelled, upc, ures,
                 quiet, ucalls, useVars,
                 lc, health, serverVars, poolVars>>

\* reregister after the RPC of its Register: startHealthChecks when it
\* succeeded; the outcome is logged and the loop goes on.
reregisterDone(l) ==
  /\ loops[l] = "rereg"
  /\ rpc' = [rpc EXCEPT ![l] = NoRPC]
  /\ \E err \in BOOLEAN :
       /\ ~err => (Replied(l) /\ resp[ProcOf(l)].code = "OK")
       /\ IF err \/ ~resp[ProcOf(l)].success
          THEN /\ loops' = [loops EXCEPT ![l] = "wait"]
               /\ UNCHANGED <<healthCheckCtx, reregistered, health>>
          ELSE startHealthChecks([loops EXCEPT ![l] = "wait"], reregistered)
  /\ UNCHANGED <<index, lists, selects, picked, cli, cancelled, upc, ures, quiet, ucalls,
                 useVars,
                 lc, serverVars, poolVars>>

\* A loop at its select takes <-ctx.Done() and returns.
loopExit(l) ==
  /\ loops[l] = "wait"
  /\ l \in cancelled
  /\ loops' = [loops EXCEPT ![l] = "exit"]
  /\ UNCHANGED <<index, lists, selects, picked, cli, healthCheckCtx, cancelled, upc, ures,
                 rpc, quiet, reregistered, ucalls, useVars,
                 lc, health, serverVars, poolVars>>

\* The user calls Deregister: stopHealthChecks, then the RPC.
ClientDeregister ==
  /\ upc = "idle"
  /\ ucalls < MaxUserCalls
  /\ ucalls' = ucalls + 1
  /\ IF cli.serviceName = "" \/ cli.instanceID = ""
     THEN /\ ures' = "service not registered"
          /\ UNCHANGED <<healthCheckCtx, cancelled, rpc, upc>>
     ELSE /\ CanSend(0)
          /\ stopHealthChecks
          /\ rpc' = [rpc EXCEPT ![0] =
                       [op |-> "Deregister",
                        req |-> [serviceName |-> cli.serviceName,
                                 instanceId |-> cli.instanceID]]]
          /\ upc' = "dereg"
          /\ ures' = "none"
  /\ UNCHANGED <<index, lists, selects, picked, cli, loops, quiet, reregistered,
                 useVars,
                 lc, health, serverVars, poolVars>>

\* The user's Deregister after its RPC: its error, or nil.
ClientDeregisterDone ==
  /\ upc = "dereg"
  /\ upc' = "idle"
  /\ rpc' = [rpc EXCEPT ![0] = NoRPC]
  /\ \E err \in BOOLEAN :
       /\ ~err => (Replied(0) /\ resp[ProcOf(0)].code = "OK")
       /\ IF err \/ ~resp[ProcOf(0)].success
          THEN /\ ures' = "deregistration failed"
               /\ UNCHANGED quiet
          ELSE /\ ures' = "nil"
               /\ quiet' = TRUE
  /\ UNCHANGED <<index, lists, selects, picked, cli, healthCheckCtx, cancelled, loops,
                 reregistered, ucalls, useVars,
                 lc, health, serverVars, poolVars>>

\* A client and the in-memory server it talks to: the user registers and
\* deregisters, the loops tick at any time, RPCs fail or are answered by
\* the server, instances expire.
InitHealth == InitServer /\ inMemory /\ authToken = "" /\ concurrent = TRUE
NextHealth ==
  \/ \E a \in RegisterArgs : ClientRegister(a)
  \/ ClientRegisterDone
  \/ ClientDeregister
  \/ ClientDeregisterDone
  \/ \E l \in DOMAIN loops : sendHealthCheck(l)
  \/ \E l \in DOMAIN loops : sendHealthCheckDone(l)
  \/ \E l \in DOMAIN loops : reregister(l)
  \/ \E l \in DOMAIN loops : reregisterDone(l)
  \/ \E l \in DOMAIN loops : loopExit(l)
  \/ \E t \in Threads : rpc[t].op = "Register" /\ Register(ProcOf(t), rpc[t].req, NoMD)
  \/ \E t \in Threads : rpc[t].op = "HealthCheck" /\ HealthCheck(ProcOf(t), rpc[t].req, NoMD)
  \/ \E t \in Threads : rpc[t].op = "Deregister" /\ Deregister(ProcOf(t), rpc[t].req, NoMD)
  \/ \E p \in Procs : (\A t \in Threads : ProcOf(t) = p => rpc[t] = NoRPC) /\ Return(p)
  \/ startJanitor
  \/ Tick
SpecHealth == InitHealth /\ [][NextHealth]_vars

\* startHealthChecks and stopHealthChecks called as they are, for every
\* Options.TTL and Options.HealthCheckInterval up to MaxTTL.
StartLoop ==
  /\ startHealthChecks(loops, reregistered)
  /\ UNCHANGED <<index, lists, selects, picked, cli, cancelled, upc, ures, rpc, quiet,
                 ucalls, useVars, lc, serverVars, poolVars>>

StopLoop ==
  /\ stopHealthChecks
  /\ UNCHANGED <<index, lists, selects, picked, cli, loops, upc, ures, rpc, quiet,
                 reregistered, ucalls, useVars, lc, health, serverVars, poolVars>>

InitInterval ==
  /\ \E b \in PlainBoots : Constructed(b, EmptyMap)
  /\ sync = NoSync
  /\ metrics = NoMetrics
  /\ inMemory
  /\ authToken = ""
  /\ concurrent = TRUE
  /\ \E ttl \in 0..MaxTTL, hci \in 0..MaxTTL :
       ClientWith([s \in Services |-> <<>>], [TTL |-> ttl, HealthCheckInterval |-> hci],
                  TRUE)
NextInterval ==
  \/ StartLoop
  \/ StopLoop
  \/ \E l \in DOMAIN loops : loopExit(l)
  \/ Tick
  \/ startJanitor
SpecInterval == InitInterval /\ [][NextInterval]_vars

\* A client whose TTL is the cacheTTL of the in-memory server it registers
\* with, its interval left to be calculated, the times of its ticker
\* followed. The clock passes neither an RPC in flight nor a loop whose
\* ticker has fired.
InitAlive ==
  /\ \E b \in PlainBoots : Constructed(b, EmptyMap)
  /\ sync = NoSync
  /\ metrics = NoMetrics
  /\ inMemory
  /\ authToken = ""
  /\ concurrent = TRUE
  /\ ClientWith([s \in Services |-> <<>>], [TTL |-> CacheTTL, HealthCheckInterval |-> 0],
                TRUE)
NextAlive ==
  \/ \E a \in RegisterArgs : ClientRegister(a)
  \/ ClientRegisterDone
  \/ \E l \in DOMAIN loops : sendHealthCheck(l)
  \/ \E l \in DOMAIN loops : sendHealthCheckDone(l)
  \/ \E l \in DOMAIN loops : reregister(l)
  \/ \E l \in DOMAIN loops : reregisterDone(l)
  \/ \E t \in Threads : rpc[t].op = "Register" /\ Register(ProcOf(t), rpc[t].req, NoMD)
  \/ \E t \in Threads : rpc[t].op = "HealthCheck" /\ HealthCheck(ProcOf(t), rpc[t].req, NoMD)
  \/ \E p \in Procs : (\A t \in Threads : ProcOf(t) = p => rpc[t] = NoRPC) /\ Return(p)
  \/ startJanitor
  \/ /\ \A th \in Threads : rpc[th] = NoRPC
     /\ \A l \in DOMAIN loops : loops[l] = "wait" => now < health.next
     /\ Tick
SpecAlive == InitAlive /\ [][NextAlive]_vars

(***************************************************************************)
(* The client: Discover with its cache, Close                              *)
(***************************************************************************)

\* cache.Get of go-cache at time t: the item, unless its expiration has passed.
cacheGet(c, k, t) ==
  IF k \in DOMAIN c /\ ~(t > c[k].expiration)
  THEN [found |-> TRUE, object |-> c[k].object]
  ELSE [found |-> FALSE, object |-> <<>>]

\* cache.Set(k, x, d) of go-cache at time t.
cacheSet(c, k, x, d, t) == MapPut(c, k, [object |-> x, expiration |-> t + d])

\* net.JoinHostPort(host, strconv.Itoa(port)).
JoinHostPort(host, port) ==
  IF port = 9090 /\ host = "h1" THEN "h1:9090"
  ELSE IF port = 9090 /\ host = "h2" THEN "h2:9090"
  ELSE IF port = 9090 /\ host = "h3" THEN "h3:9090"
  ELSE "other"

\* A faulty variant: a cached list is used whatever its age.
ClientDiscoverStale(s) ==
  /\ upc = "idle"
  /\ ucalls < MaxUserCalls
  /\ ucalls' = ucalls + 1
  /\ dname' = s
  /\ ures' = "none"
  /\ IF s \in DOMAIN ccache
     THEN /\ dinst' = ccache[s].object
          /\ upc' = "select"
          /\ UNCHANGED rpc
     ELSE /\ CanSend(0)
          /\ rpc' = [rpc EXCEPT ![0] =
                       [op |-> "Discover",
                        req |-> [serviceName |-> s, healthyOnly |-> TRUE]]]
          /\ dinst' = <<>>
          /\ upc' = "disc"
  /\ UNCHANGED <<index, lists, selects, picked, cli, healthCheckCtx, cancelled, loops,
                 quiet, reregistered, ccache, ustamp, connCloses, lc, health, serverVars, poolVars>>

\* The user calls Discover(s): getServiceInstances up to its RPC, or to its
\* return when the cache has the list.
ClientDiscover(s) ==
  LET cached == cacheGet(ccache, s, now) IN
  /\ upc = "idle"
  /\ ucalls < MaxUserCalls
  /\ ucalls' = ucalls + 1
  /\ dname' = s
  /\ ures' = "none"
  /\ IF cached.found
     THEN /\ dinst' = cached.object
          /\ upc' = "select"
          /\ UNCHANGED rpc
     ELSE /\ CanSend(0)
          /\ rpc' = [rpc EXCEPT ![0] =
                       [op |-> "Discover",
                        req |-> [serviceName |-> s, healthyOnly |-> TRUE]]]
          /\ dinst' = <<>>
          /\ upc' = "disc"
  /\ UNCHANGED <<index, lists, selects, picked, cli, healthCheckCtx, cancelled, loops,
                 quiet, reregistered, ccache, ustamp, connCloses, lc, health, serverVars, poolVars>>

\* getServiceInstances after its RPC: the error, or the list, which is put
\* into the cache.
ClientDiscoverDone ==
  /\ upc = "disc"
  /\ rpc' = [rpc EXCEPT ![0] = NoRPC]
  /\ \E err \in BOOLEAN :
       /\ ~err => (Replied(0) /\ resp[ProcOf(0)].code = "OK")
       /\ IF err
          THEN /\ ures' = "rpc error"
               /\ upc' = "idle"
               /\ UNCHANGED <<ccache, dinst>>
          ELSE /\ ccache' = cacheSet(ccache, dname, resp[ProcOf(0)].instances, ClientTTL, now)
               /\ dinst' = resp[ProcOf(0)].instances
               /\ upc' = "select"
               /\ UNCHANGED ures
  /\ UNCHANGED <<index, lists, selects, picked, cli, healthCheckCtx, cancelled, loops,
                 quiet, reregistered, ucalls, dname, ustamp, connCloses, lc, health, serverVars, poolVars>>

\* Discover with the list: the error for an empty one, else the balancer's
\* Select and on to the pool.
ClientSelect ==
  LET r == roundRobinSelect(index, dname, dinst) IN
  /\ upc = "select"
  /\ IF Len(dinst) = 0
     THEN /\ ures' = "no instances available"
          /\ upc' = "idle"
          /\ UNCHANGED <<index, picked, selects, ustamp>>
     ELSE /\ index' = r.index
          /\ picked' = [picked EXCEPT ![dname] = r.selected]
          /\ selects' = [selects EXCEPT ![dname] = @ + 1]
          /\ ustamp' = pcalls
          /\ upc' = "get"
          /\ UNCHANGED ures
  /\ UNCHANGED <<lists, cli, healthCheckCtx, cancelled, loops, rpc, quiet, reregistered,
                 ucalls, ccache, dname, dinst, connCloses, lc, health, serverVars, poolVars>>

\* The address Discover passes to connectionPool.Get.
SelectedAddress == JoinHostPort(picked[dname].address, picked[dname].port)

\* Discover returns what connectionPool.Get returned.
ClientDiscoverReturn ==
  /\ upc = "get"
  /\ pcalls = ustamp + 1
  /\ gpc[ProcOf(0)] = "idle"
  /\ upc' = "idle"
  /\ ures' = IF gres[ProcOf(0)] > 0 THEN "conn" ELSE "dial failed"
  /\ UNCHANGED <<index, lists, selects, picked, cli, healthCheckCtx, cancelled, loops, rpc,
                 quiet, reregistered, ucalls, useVars, lc, health, serverVars, poolVars>>

\* The user calls Close: stopHealthChecks, then on to connectionPool.Close.
ClientClose ==
  /\ upc = "idle"
  /\ ucalls < MaxUserCalls
  /\ ucalls' = ucalls + 1
  /\ stopHealthChecks
  /\ ustamp' = closings
  /\ upc' = "close"
  /\ ures' = "none"
  /\ UNCHANGED <<index, lists, selects, picked, cli, loops, rpc, quiet, reregistered,
                 ccache, dname, dinst, connCloses, lc, health, serverVars, poolVars>>

\* Close after connectionPool.Close: c.conn.Close() and its error, which a
\* ClientConn gives when it has been closed before.
ClientCloseDone ==
  /\ upc = "close"
  /\ closings = ustamp + 1
  /\ connCloses' = connCloses + 1
  /\ ures' = IF connCloses = 0 THEN "nil" ELSE "grpc: the client connection is closing"
  /\ upc' = "idle"
  /\ UNCHANGED <<index, lists, selects, picked, cli, healthCheckCtx, cancelled, loops, rpc,
                 quiet, reregistered, ucalls, ccache, dname, dinst, ustamp, lc, health, serverVars,
                 poolVars>>

\* The instance that registers with the server while the user discovers.
OtherInstance ==
  [serviceName |-> "a", instanceId |-> "i2", address |-> "h1", port |-> 9090, metadata |-> {}]

\* A client that discovers, against the in-memory server: instances
\* register and expire, RPCs fail or are answered, time passes.
InitDiscover == InitServer /\ inMemory /\ authToken = "" /\ concurrent = TRUE
NextDiscover ==
  \/ ucalls < MaxDiscovers /\ \E s \in Services : ClientDiscover(s)
  \/ ClientDiscoverDone
  \/ ClientSelect
  \/ upc = "get" /\ pcalls = ustamp /\ Get(ProcOf(0), SelectedAddress)
  \/ upc = "get" /\ GetLocked(ProcOf(0))
  \/ ClientDiscoverReturn
  \/ rpc[0].op = "Discover" /\ Discover(ProcOf(0), rpc[0].req, NoMD)
  \/ rpc[0] = NoRPC /\ upc = "idle" /\ Return(ProcOf(0))
  \/ Register("p2", OtherInstance, NoMD)
  \/ Return("p2")
  \/ startJanitor
  \/ Tick
SpecDiscover == InitDiscover /\ [][NextDiscover]_vars

\* A client that registers, discovers itself and is closed, against the
\* in-memory server. The health interval is longer than the time covered,
\* so a loop only starts and stops.
InitClose == InitServer /\ inMemory /\ authToken = "" /\ concurrent = TRUE
NextClose ==
  \/ connCloses = 0 /\ \E a \in RegisterArgs : ~InvalidArgs(a) /\ ClientRegister(a)
  \/ ClientRegisterDone
  \/ connCloses = 0 /\ ClientDiscover("a")
  \/ ClientDiscoverDone
  \/ ClientSelect
  \/ upc = "get" /\ pcalls = ustamp /\ Get(ProcOf(0), SelectedAddress)
  \/ upc = "get" /\ GetLocked(ProcOf(0))
  \/ ClientDiscoverReturn
  \/ ClientClose
  \/ upc = "close" /\ closings = ustamp /\ Close
  \/ ClientCloseDone
  \/ \E l \in DOMAIN loops : loopExit(l)
  \/ rpc[0].op = "Register" /\ Register(ProcOf(0), rpc[0].req, NoMD)
  \/ rpc[0].op = "Discover" /\ Discover(ProcOf(0), rpc[0].req, NoMD)
  \/ rpc[0] = NoRPC /\ Return(ProcOf(0))
SpecClose == InitClose /\ [][NextClose]_vars

(***************************************************************************)
(* The least-connections balancer                                          *)
(***************************************************************************)

\* int64(1<<63 - 1), which no count reaches; here the largest integer of
\* the checker.
MaxInt64 == 2147483647

\* The lists Select is given: none, one, two or three distinct instances,
\* the three in any order.
LeastLists ==
  { [j \in 1..Len(o) |-> InstanceAt("a", o[j])] :
      o \in {<<>>, <<2>>, <<2, 1>>} \cup Perms({1, 2, 3}) }

\* A faulty variant: a later instance with the same count is preferred.
leastScanLast(st, inst, n) ==
  IF n <= st.minConns THEN [st EXCEPT !.minConns = n, !.selected = inst] ELSE st

\* The body of Select's loop for an instance whose count is n.
leastScan(st, inst, n) ==
  IF n < st.minConns THEN [st EXCEPT !.minConns = n, !.selected = inst] ELSE st

\* leastConnectionsBalancer.Select up to its loop: nil for an empty list.
LeastSelect(list) ==
  /\ lc.at = "idle"
  /\ lc.n < MaxLeast
  /\ lc' = [at |-> IF Len(list) = 0 THEN "done" ELSE "scan", instances |-> list,
            minConns |-> MaxInt64, selected |-> NoInstance, read |-> <<>>, n |-> lc.n + 1]
  /\ UNCHANGED <<index, lists, selects, picked, cli, healthCheckCtx, cancelled, loops, upc,
                 ures, rpc, quiet, reregistered, ucalls, useVars, health, serverVars, poolVars>>

\* One turn of the loop: the count of the instance's address is read from
\* the pool and compared.
LeastScan ==
  LET k == Len(lc.read) + 1
      inst == lc.instances[k]
      n == ConnectionCount(JoinHostPort(inst.address, inst.port))
      st == leastScan(lc, inst, n)
  IN
  /\ lc.at = "scan"
  /\ lc' = [st EXCEPT !.read = Append(@, n),
                      !.at = IF k = Len(lc.instances) THEN "done" ELSE "scan"]
  /\ UNCHANGED <<index, lists, selects, picked, cli, healthCheckCtx, cancelled, loops, upc,
                 ures, rpc, quiet, reregistered, ucalls, useVars, health, serverVars, poolVars>>

\* Select returns selected, and its locals are gone.
LeastReturn ==
  /\ lc.at = "done"
  /\ lc' = [at |-> "idle", instances |-> <<>>, minConns |-> 0, selected |-> NoInstance,
            read |-> <<>>, n |-> lc.n]
  /\ UNCHANGED <<index, lists, selects, picked, cli, healthCheckCtx, cancelled, loops, upc,
                 ures, rpc, quiet, reregistered, ucalls, useVars, health, serverVars, poolVars>>

\* A least-connections balancer over a pool that another goroutine uses
\* while Select runs.
InitLeast == InitServer /\ inMemory /\ authToken = "" /\ concurrent = TRUE
NextLeast ==
  \/ \E list \in LeastLists : LeastSelect(list)
  \/ LeastScan
  \/ LeastReturn
  \/ \E a \in Addresses : Get("p1", a)
  \/ GetLocked("p1")
  \/ \E a \in Addresses : Release("p1", a)
SpecLeast == InitLeast /\ [][NextLeast]_vars

(***************************************************************************)
(* Properties                                                              *)
(***************************************************************************)
\* The step in which goroutine p serves an RPC op up to its first etcd call.
Serves(p, op) == pc[p] = "idle" /\ pc'[p] # "idle" /\ call'[p].op = op

\* The response is a rejection by the interceptor.
Rejected(r) == r.code \in {"Unauthenticated", "PermissionDenied"}

\* The interceptor called the handler of p's RPC.
HandlerCalled(p) == pc[p] # "idle" /\ ~Rejected(resp[p])

\* The Registrations a Discover is served from.
View ==
  IF inMemory
  THEN [s \in DOMAIN inMemoryInstances |->
          [i \in DOMAIN inMemoryInstances[s] |-> inMemoryInstances[s][i].registration]]
  ELSE services

\* The places of list that hold an instance with id i.
Places(list, i) == { n \in DOMAIN list : list[n].instanceId = i }


\* C1: in in-memory mode, a Discover of a service returns, for each of its
\* instances whose Register succeeded and that was neither deregistered nor
\* expired since, exactly one Registration with that id, and it is the one
\* of the latest successful Register, whatever was called for other
\* instances in between.
C1_RegisterThenDiscover ==
  [][\A p \in Procs :
       (Serves(p, "Discover") /\ inMemory /\ resp'[p].code = "OK") =>
         \A k \in DOMAIN lastReg :
           k[1] = call'[p].req.serviceName =>
             /\ Cardinality(Places(resp'[p].instances, k[2])) = 1
             /\ \A n \in Places(resp'[p].instances, k[2]) :
                  resp'[p].instances[n] = lastReg[k]]_vars

\* A Discover answered with two instances in in-memory mode, both registered.
C1_Witness ==
  \E p \in Procs :
    /\ inMemory
    /\ pc[p] = "done"
    /\ call[p].op = "Discover"
    /\ Len(resp[p].instances) = 2
    /\ Cardinality({ k \in DOMAIN lastReg : k[1] = call[p].req.serviceName }) = 2
    /\ \E n \in DOMAIN resp[p].instances : resp[p].instances[n].metadata # {}

\* C2 (as claimed): with RPCs issued one after another, in either mode, a
\* Discover of a service returns no instance whose Deregister returned
\* success and for which no Register was issued since.
C2_DeregisterThenDiscover ==
  [][\A p \in Procs :
       (Serves(p, "Discover") /\ resp'[p].code = "OK") =>
         \A k \in DOMAIN deregistered :
           k[1] = call'[p].req.serviceName => Places(resp'[p].instances, k[2]) = {}]_vars

\* C3 (as claimed): in store-backed mode with the refresher running, a
\* Discover returns every instance whose Register has returned success, for
\* which no Deregister was issued since, and whose store key exists.
C3_DiscoverReflectsRegister ==
  [][\A p \in Procs :
       (Serves(p, "Discover") /\ ~inMemory /\ resp'[p].code = "OK") =>
         \A k \in (DOMAIN lastReg) \cap (DOMAIN etcd) :
           k[1] = call'[p].req.serviceName => Places(resp'[p].instances, k[2]) # {}]_vars

\* C4 (as claimed): in store-backed mode, once Deregister has returned
\* success and no Register for the instance was issued during or after it,
\* the store key of the instance is absent and no Discover returns the
\* instance, whatever HealthCheck and the refresher do beside it.
C4_DeregisterIsFinal ==
  [][/\ ~inMemory => \A k \in DOMAIN deregistered' : k \notin DOMAIN etcd'
     /\ \A p \in Procs :
          (Serves(p, "Discover") /\ ~inMemory /\ resp'[p].code = "OK") =>
            \A k \in DOMAIN deregistered :
              k[1] = call'[p].req.serviceName => Places(resp'[p].instances, k[2]) = {}]_vars

\* C5: Register called with an empty serviceName, instanceId or address or
\* with port zero answers InvalidArgument and leaves the maps and the store
\* as they were; called with all four valid it never answers InvalidArgument.
C5_RegisterValidation ==
  [][\A p \in Procs :
       LET req == call'[p].req
           empty == req.serviceName = "" \/ req.instanceId = "" \/ req.address = ""
       IN  /\ (Serves(p, "Register") /\ ~Rejected(resp'[p]) /\ (empty \/ req.port = 0)) =>
                /\ pc'[p] = "done"
                /\ resp'[p].code = "InvalidArgument"
                /\ UNCHANGED <<inMemoryInstances, services, etcd>>
           /\ (call'[p].op = "Register" /\ ~empty /\ req.port # 0) =>
                resp'[p].code # "InvalidArgument"]_vars

\* A Register with port zero was answered InvalidArgument while an instance
\* is registered.
C5_Witness ==
  \E p \in Procs :
    /\ pc[p] = "done"
    /\ call[p].op = "Register"
    /\ call[p].req.port = 0
    /\ resp[p].code = "InvalidArgument"
    /\ (inMemoryInstances # EmptyMap \/ services # EmptyMap)

\* C6: with a token configured, the handler of an RPC is called only if
\* the first authorization value of the request is the token; with no token
\* configured no request is rejected by the interceptor.
C6_AuthGate ==
  \A p \in Procs :
    pc[p] # "idle" =>
      IF authToken # ""
      THEN HandlerCalled(p) =>
             /\ call[p].md.ok
             /\ Len(call[p].md.authorization) > 0
             /\ call[p].md.authorization[1] = authToken
      ELSE HandlerCalled(p)

\* With a token configured, a handler was called and answered OK.
C6_Witness ==
  \E p \in Procs :
    /\ authToken # ""
    /\ pc[p] = "done"
    /\ resp[p].code = "OK"
    /\ call[p].md.authorization = <<authToken>>

\* C7 (as claimed): with a token configured, a request without an
\* authorization value, with or without other metadata, is answered
\* Unauthenticated, and one whose authorization value is not the token is
\* answered PermissionDenied.
C7_AuthCodes ==
  \A p \in Procs :
    (pc[p] = "done" /\ authToken # "") =>
      /\ (~call[p].md.ok \/ Len(call[p].md.authorization) = 0) =>
           resp[p].code = "Unauthenticated"
      /\ (Len(call[p].md.authorization) > 0 /\ call[p].md.authorization[1] # authToken) =>
           resp[p].code = "PermissionDenied"


\* C8: HealthCheck for an instance that is not in the server's view answers
\* UNHEALTHY and changes neither the maps nor the store; for an instance
\* known in in-memory mode it answers HEALTHY and sets the lastSeen of that
\* instance, and nothing else, to now; its status is never UNKNOWN.
C8_HealthCheck ==
  [][\A p \in Procs :
       /\ (Serves(p, "HealthCheck") /\ ~Rejected(resp'[p])) =>
            LET s == call'[p].req.serviceName
                i == call'[p].req.instanceId
            IN  /\ (inMemory /\ Has2(inMemoryInstances, s, i)) =>
                     /\ pc'[p] = "done"
                     /\ resp'[p].status = "HEALTHY"
                     /\ inMemoryInstances'[s][i].lastSeen = now
                     /\ inMemoryInstances'[s][i].registration = inMemoryInstances[s][i].registration
                     /\ \A k \in Keys \ {<<s, i>>} :
                          /\ Has2(inMemoryInstances', k[1], k[2]) = Has2(inMemoryInstances, k[1], k[2])
                          /\ Has2(inMemoryInstances, k[1], k[2]) =>
                               inMemoryInstances'[k[1]][k[2]] = inMemoryInstances[k[1]][k[2]]
                /\ ~Has2(IF inMemory THEN inMemoryInstances ELSE services, s, i) =>
                     /\ pc'[p] = "done"
                     /\ resp'[p].status = "UNHEALTHY"
                     /\ UNCHANGED <<inMemoryInstances, services, etcd>>
       /\ (call'[p].op = "HealthCheck" /\ pc'[p] = "done" /\ resp'[p].code = "OK") =>
            resp'[p].status \in {"HEALTHY", "UNHEALTHY"}]_vars

\* A HealthCheck answered HEALTHY in in-memory mode for an instance that was
\* registered at an earlier time.
C8_Witness ==
  \E p \in Procs :
    /\ inMemory
    /\ pc[p] = "done"
    /\ call[p].op = "HealthCheck"
    /\ resp[p].status = "HEALTHY"
    /\ now > 0
    /\ inMemoryInstances[call[p].req.serviceName][call[p].req.instanceId].lastSeen = now
    /\ \E k \in Keys \ {KeyOf(call[p].req)} :
         /\ Has2(inMemoryInstances, k[1], k[2])
         /\ inMemoryInstances[k[1]][k[2]].lastSeen < now

\* C9 (as claimed): in store-backed mode a HealthCheck for a known instance
\* whose lease grant or put failed answers UNHEALTHY, and the instance stays
\* in the view.
C9_FailedRenewalIsUnhealthy ==
  \A p \in Procs :
    (~inMemory /\ pc[p] = "done" /\ call[p].op = "HealthCheck" /\ ~storeOK[p]) =>
      /\ resp[p].status = "UNHEALTHY"
      /\ Has2(services, call[p].req.serviceName, call[p].req.instanceId)

\* C10: in in-memory mode, with the janitor waking every cacheTTL/2, no
\* instance is in the view later than lastSeen + cacheTTL + cacheTTL/2, and
\* a sweep of the janitor removes no instance whose lastSeen is at most
\* cacheTTL old.
C10_JanitorExpiry ==
  [][/\ \A k \in Keys :
          (inMemory /\ Has2(inMemoryInstances', k[1], k[2])) =>
            now' - inMemoryInstances'[k[1]][k[2]].lastSeen <= CacheTTL + Half
     /\ janitorNext' # janitorNext =>
          \A k \in Keys :
            (Has2(inMemoryInstances, k[1], k[2])
             /\ now - inMemoryInstances[k[1]][k[2]].lastSeen <= CacheTTL) =>
               /\ Has2(inMemoryInstances', k[1], k[2])
               /\ inMemoryInstances'[k[1]][k[2]] = inMemoryInstances[k[1]][k[2]]]_vars

\* The janitor has just swept, an instance it removed has not registered
\* again, and an instance whose lastSeen is cacheTTL old is still there.
C10_Witness ==
  /\ inMemory
  /\ janitorNext = now + Half
  /\ expired # {}
  /\ \E k \in Keys :
       /\ Has2(inMemoryInstances, k[1], k[2])
       /\ now - inMemoryInstances[k[1]][k[2]].lastSeen = CacheTTL

\* C11 (as claimed): in in-memory mode a Discover returns no instance whose
\* lastSeen is more than cacheTTL old at the time of the call, the janitor
\* having swept or not.
C11_DiscoverNeverStale ==
  [][\A p \in Procs :
       (Serves(p, "Discover") /\ inMemory /\ resp'[p].code = "OK") =>
         \A n \in DOMAIN resp'[p].instances :
           LET r == resp'[p].instances[n]
           IN  now - inMemoryInstances[r.serviceName][r.instanceId].lastSeen <= CacheTTL]_vars

\* C12: in store-backed mode, the step in which the lease grant or the put
\* of Register, or the delete of Deregister, fails ends the call with
\* Internal and leaves the view as it is; a step of a handler of Register or
\* Deregister changes the view only when it ends the call with success.
C12_StoreFailureIsInternal ==
  [][\A p \in Procs :
       /\ (~inMemory /\ call'[p].op \in {"Register", "Deregister"}
             /\ storeOK[p] /\ ~storeOK'[p]) =>
            /\ pc'[p] = "done"
            /\ resp'[p].code = "Internal"
            /\ UNCHANGED <<services, inMemoryInstances>>
       /\ (~inMemory /\ call'[p].op \in {"Register", "Deregister"}
             /\ pc'[p] # pc[p] /\ services' # services) =>
            /\ pc'[p] = "done"
            /\ resp'[p].success]_vars

\* In store-backed mode the put of a Register that would have replaced the
\* record of a registered instance has failed: the view holds the old record.
C12_Witness ==
  \E p \in Procs :
    LET req == call[p].req IN
    /\ ~inMemory
    /\ pc[p] = "done"
    /\ call[p].op = "Register"
    /\ resp[p].code = "Internal"
    /\ lease[p] > 0
    /\ Has2(services, req.serviceName, req.instanceId)
    /\ services[req.serviceName][req.instanceId] # req

\* C13: a Deregister whose store delete (if any) did not fail ends with
\* success and with the instance absent from the view; when the instance
\* was not in the view (unknown service or unknown id) the view is left as
\* it was. A second Deregister therefore answers and leaves what the first
\* did.
C13_DeregisterIdempotent ==
  [][\A p \in Procs :
       LET k == KeyOf(call'[p].req)
           before == IF inMemory THEN inMemoryInstances ELSE services
           after == IF inMemory THEN inMemoryInstances' ELSE services'
       IN  (call'[p].op = "Deregister" /\ pc[p] # "done" /\ pc'[p] = "done"
             /\ ~Rejected(resp'[p]) /\ storeOK'[p]) =>
             /\ resp'[p].success
             /\ ~Has2(after, k[1], k[2])
             /\ ~Has2(before, k[1], k[2]) => after = before]_vars

\* A Deregister of an instance that was not in the view has returned success
\* while another instance of the service is registered.
C13_Witness ==
  \E p \in Procs :
    LET k == KeyOf(call[p].req)
        view == IF inMemory THEN inMemoryInstances ELSE services
    IN  /\ pc[p] = "done"
        /\ call[p].op = "Deregister"
        /\ resp[p].success
        /\ k \in DOMAIN deregistered
        /\ ~deregistered[k]
        /\ k[1] \in DOMAIN view

\* C14: the step that ends a Register with success leaves one record for
\* the instance, the request's, and every other instance as it was, so that
\* a Register of a record the view already holds changes nothing a Discover
\* returns; and no Discover returns two entries with the same instanceId.
C14_RegisterReplaces ==
  [][\A p \in Procs :
       /\ (call'[p].op = "Register" /\ pc[p] # "done" /\ pc'[p] = "done"
             /\ resp'[p].success) =>
            LET req == call'[p].req
                k == KeyOf(req)
            IN  /\ Has2(View', k[1], k[2])
                /\ View'[k[1]][k[2]] = req
                /\ \A o \in Keys \ {k} :
                     /\ Has2(View', o[1], o[2]) <=> Has2(View, o[1], o[2])
                     /\ Has2(View, o[1], o[2]) => View'[o[1]][o[2]] = View[o[1]][o[2]]
                /\ DOMAIN View' = DOMAIN View \cup {k[1]}
       /\ (Serves(p, "Discover") /\ resp'[p].code = "OK") =>
            \A i \in Ids : Cardinality(Places(resp'[p].instances, i)) <= 1]_vars

\* In store-backed mode a Register has returned success for an instance
\* that the refresher read from the store with other fields before: the
\* view holds the new record, beside the other instance.
C14_Witness ==
  \E p \in Procs :
    LET req == call[p].req
        k == KeyOf(req)
    IN  /\ ~inMemory
        /\ pc[p] = "done"
        /\ call[p].op = "Register"
        /\ resp[p].success
        /\ refresher = "swap"
        /\ Has2(newCache, k[1], k[2])
        /\ newCache[k[1]][k[2]] # req
        /\ services[k[1]][k[2]] = req
        /\ Cardinality(DOMAIN services[k[1]]) = 2

\* C15: the server is in in-memory mode exactly when NewServer was given no
\* endpoints or the connection or the initial load failed; the flag never
\* changes; one janitor and no refresher was started in in-memory mode, one
\* refresher and no janitor in store-backed mode; the janitor sweeps only in
\* in-memory mode and the refresher refreshes only in store-backed mode.
C15_ModeIsFixed ==
  [][/\ inMemory = (Len(boot.cfg.ETCDEndpoints) = 0 \/ ~boot.connectOK \/ ~boot.loadOK)
     /\ inMemory' = inMemory
     /\ janitors' = (IF inMemory THEN 1 ELSE 0)
     /\ refreshers' = (IF inMemory THEN 0 ELSE 1)
     /\ janitorNext' # janitorNext => inMemory
     /\ (refreshNext' # refreshNext \/ refresher' # refresher) => ~inMemory]_vars

\* NewServer was given an endpoint and connected, the initial load failed:
\* the server has served a Register from its in-memory map and the janitor
\* has swept.
C15_Witness ==
  /\ Len(boot.cfg.ETCDEndpoints) # 0
  /\ boot.connectOK
  /\ ~boot.loadOK
  /\ inMemory
  /\ etcd # EmptyMap
  /\ inMemoryInstances # EmptyMap
  /\ janitorNext > Half

\* C16 as stated: in store-backed mode, from construction on, whenever the
\* refresher is between two refreshes, either the view holds exactly the
\* records of the store that parse, or the store has changed and no
\* refresher tick has been served since the change.
C16_ConvergesAtNextTick ==
  (~inMemory /\ refresher = "wait") =>
    /\ sync.at < 0 =>
         LET regs == { Unmarshal(etcd[k].value).reg :
                         k \in { x \in DOMAIN etcd : Unmarshal(etcd[x].value).ok } }
         IN  /\ \A r \in regs : /\ Has2(services, r.serviceName, r.instanceId)
                                /\ services[r.serviceName][r.instanceId] = r
             /\ \A s \in DOMAIN services : \A i \in DOMAIN services[s] :
                   services[s][i] \in regs
    /\ sync.at >= 0 => refreshNext <= sync.at + Half

\* C16, amended: the same, but a refresher tick whose prefix get fails
\* leaves the view as it was; the view equals the parseable records of the
\* store after the first tick following the change whose prefix get succeeds.
C16_ViewConverges ==
  (~inMemory /\ refresher = "wait") =>
    /\ sync.at < 0 =>
         LET parsed == { Unmarshal(etcd[k].value) : k \in DOMAIN etcd }
             regs == { u.reg : u \in { x \in parsed : x.ok } }
         IN  /\ \A r \in regs : /\ Has2(services, r.serviceName, r.instanceId)
                                /\ services[r.serviceName][r.instanceId] = r
             /\ \A s \in DOMAIN services : \A i \in DOMAIN services[s] :
                   services[s][i] \in regs
    /\ (sync.at >= 0 /\ ~sync.failed) => refreshNext <= sync.at + Half

\* After changes of the store by other writers the view has caught up: it
\* holds an instance no initial store held, and not the instance whose
\* record was replaced by one that does not parse.
C16_Witness ==
  /\ ~inMemory
  /\ sync.on
  /\ sync.at < 0
  /\ refresher = "wait"
  /\ now > 0
  /\ Has2(services, "a", "i1")
  /\ <<"a", "i2">> \in DOMAIN etcd
  /\ etcd[<<"a", "i2">>].value = Garbage
  /\ ~Has2(services, "a", "i2")

\* C17: when a Get that waited for the write lock completes while the entry
\* that the other goroutine's Get dialed, as this one waited for the same
\* address, is in the map, it dials nothing, returns that same connection,
\* and ConnectionCount of the address is 2; the other's Get dialed once.
C17_ConcurrentGet ==
  [][\A p \in Procs : \A q \in Procs \ {p} :
       LET a == gaddr[p] IN
       /\ (/\ gpc[p] = "slow" /\ gpc'[p] = "idle"
           /\ raced[q] /\ gaddr[q] = a
           /\ a \in DOMAIN conns /\ conns[a] = gres[q])
          => /\ dials' = dials
             /\ gres'[p] = gres[q]
             /\ ConnectionCount(a)' = 2
       /\ (/\ gpc[p] = "slow" /\ gpc[q] = "slow" /\ gaddr[q] = a
           /\ gpc'[p] = "idle" /\ gres'[p] > 0)
          => /\ dials'[a] = dials[a] + 1
             /\ ConnectionCount(a)' = 1]_vars

\* Two Gets of one address, the first calls of the pool, both past the read
\* lock with no entry, have both returned.
C17_Witness ==
  /\ pcalls = 2
  /\ gpc = [p \in Procs |-> "idle"]
  /\ raced["p1"]
  /\ gaddr["p2"] = gaddr["p1"]
  /\ gres["p1"] > 0
  /\ gres["p2"] = gres["p1"]
  /\ dials[gaddr["p1"]] = 1
  /\ ConnectionCount(gaddr["p1"]) = 2

\* C18: of the connections dialed for an address, at most one is open.
C18_OneOpenPerAddress ==
  \A a \in Addresses :
    Cardinality({ c \in DOMAIN pcs : pcs[c].address = a /\ pcs[c].closes = 0 }) <= 1

\* C19: the ClientConn of a dialed connection is closed no more than once.
C19_ClosedAtMostOnce ==
  \A c \in DOMAIN pcs : pcs[c].closes <= 1

\* C20: a step of the pool's Close leaves the map empty and every connection
\* that was in it closed.
C20_CloseClosesAll ==
  [][closings' # closings =>
       /\ conns' = EmptyMap
       /\ \A a \in DOMAIN conns : pcs'[conns[a]].closes >= 1]_vars

\* C21: the count of an entry of the map is the Gets that returned it less
\* the Releases of its address since it was dialed; an address with no entry
\* has count 0, and a Release of it changes nothing in the pool.
C21_CountIsGetsLessReleases ==
  [][/\ \A a \in Addresses :
          IF a \in DOMAIN conns'
          THEN ConnectionCount(a)' = pcs'[conns'[a]].gets - pcs'[conns'[a]].releases
          ELSE ConnectionCount(a)' = 0
     /\ \A p \in Procs, a \in Addresses :
          (held'[p][a] < held[p][a] /\ a \notin DOMAIN conns)
            => (conns' = conns /\ pcs' = pcs /\ monitor' = monitor)]_vars

\* Two Gets of an address gave count 2 and two Releases brought it to 0,
\* the entry still in the map; the other address has no entry.
C21_Witness ==
  \E a \in DOMAIN conns :
    /\ pcs[conns[a]].gets = 2
    /\ pcs[conns[a]].releases = 2
    /\ ConnectionCount(a) = 0
    /\ \E b \in Addresses : b \notin DOMAIN conns /\ ConnectionCount(b) = 0

\* C22: a Get that succeeds returns the connection that is in the map for
\* its address as it returns, and that connection is not closed.
C22_GetReturnsOpen ==
  [][\A p \in Procs, a \in Addresses :
       held'[p][a] > held[p][a]
         => /\ gres'[p] \in DOMAIN pcs'
            /\ pcs'[gres'[p]].closes = 0
            /\ pcs'[gres'[p]].address = a
            /\ a \in DOMAIN conns'
            /\ conns'[a] = gres'[p]]_vars

\* After a monitor has reclaimed the first connection of an address, a Get
\* of that address has returned an open one: a goroutine holds the
\* connection dialed second, while the first is closed.
C22_Witness ==
  \E p \in Procs :
    /\ gres[p] = 2
    /\ Len(pcs) = 2
    /\ pcs[2].address = pcs[1].address
    /\ pcs[1].closes > 0
    /\ pcs[2].closes = 0
    /\ held[p][pcs[2].address] > 0
    /\ monitor[1] = "exit"

\* C23, its safety half: a step of a monitor that takes an entry out of the
\* map or closes a connection does so only to a connection whose count is
\* not positive.
C23_MonitorReclaimsIdleOnly ==
  [][monitor' # monitor /\ Len(monitor') = Len(monitor)
       => /\ \A a \in DOMAIN conns :
               a \notin DOMAIN conns' => pcs[conns[a]].refCount <= 0
          /\ \A c \in DOMAIN pcs :
               pcs'[c].closes > pcs[c].closes => pcs[c].refCount <= 0]_vars

\* C24: over a list of N > 0 instances, the k-th Select for a service name
\* returns element (k-1) mod N of its list, whatever Selects are made for
\* other names in between.
C24_RoundRobinIsCyclic ==
  [][\A s \in Services :
       (selects'[s] = selects[s] + 1 /\ Len(lists[s]) > 0)
         => picked'[s] = lists[s][(selects[s] % Len(lists[s])) + 1]]_vars

\* A list of three has been gone through once and a fourth Select came back
\* to its first element, with Selects for the other name, whose list has
\* two, in between.
C24_Witness ==
  /\ Len(lists["a"]) = 3
  /\ Len(lists["b"]) = 2
  /\ selects["a"] = 4
  /\ selects["b"] = 3
  /\ picked["a"] = lists["a"][1]
  /\ picked["b"] = lists["b"][1]

\* C25: a loop leaves its HealthCheck RPC for its select only with a reply
\* that is no error, else it goes on to reregister; reregister sends a
\* Register with the serviceName, instanceID, address and port the client
\* holds from its last registration and no metadata, the instanceID staying
\* what it was; and after that Register, whatever its outcome, the loop is
\* back at its select.
C25_ReregisterOnError ==
  [][\A l \in DOMAIN loops :
       /\ (loops[l] = "hc" /\ loops'[l] # "hc")
            => \/ loops'[l] = "failed"
               \/ /\ loops'[l] = "wait"
                  /\ rpc[l] # NoRPC /\ pc[ProcOf(l)] = "done"
                  /\ resp[ProcOf(l)].code = "OK"
       /\ (loops[l] = "failed" /\ loops'[l] # "failed")
            => /\ loops'[l] = "rereg"
               /\ rpc'[l] = [op |-> "Register",
                             req |-> [serviceName |-> cli.serviceName,
                                      instanceId |-> cli.instanceID,
                                      address |-> cli.address, port |-> cli.port,
                                      metadata |-> {}]]
               /\ cli' = cli
               /\ cli.instanceID = NewInstanceID
               /\ \E a \in RegisterArgs :
                    /\ a.serviceName = cli.serviceName
                    /\ a.address = cli.address
                    /\ a.port = cli.port
       /\ (loops[l] = "rereg" /\ loops'[l] # "rereg") => loops'[l] = "wait"]_vars

\* A loop whose HealthCheck failed has re-registered, and the HealthCheck
\* of a later tick of it was answered HEALTHY by the server.
C25_Witness ==
  \E l \in DOMAIN loops :
    /\ reregistered[l]
    /\ loops[l] = "hc"
    /\ pc[ProcOf(l)] = "done"
    /\ call[ProcOf(l)].op = "HealthCheck"
    /\ resp[ProcOf(l)].status = "HEALTHY"
    /\ Has2(inMemoryInstances, "a", NewInstanceID)
    /\ inMemoryInstances["a"][NewInstanceID].registration.metadata = {}

\* C26: a loop that gets, with no error, the reply UNHEALTHY for an instance
\* that the janitor has removed goes on to reregister.
C26_ReregisterOnUnhealthy ==
  [][\A l \in DOMAIN loops :
       (/\ loops[l] = "hc" /\ loops'[l] # "hc"
        /\ rpc[l] # NoRPC /\ pc[ProcOf(l)] = "done"
        /\ resp[ProcOf(l)].code = "OK"
        /\ resp[ProcOf(l)].status = "UNHEALTHY"
        /\ KeyOf(rpc[l].req) \in expired)
         => loops'[l] = "failed"]_vars

\* C27: at most one loop runs, a loop running from its start until it
\* returns, or until its context is cancelled while it is at its select.
C27_OneLoop ==
  Cardinality({ l \in DOMAIN loops :
                  loops[l] # "exit" /\ ~(loops[l] = "wait" /\ l \in cancelled) }) <= 1

\* C28: from the moment the user's Deregister has returned nil until the
\* user calls Register, the client sends no HealthCheck and no Register,
\* starts no loop, and the instance is not in the server's view.
C28_DeregisterIsQuiet ==
  [][(quiet /\ quiet')
       => /\ \A t \in Threads :
               (rpc'[t] # rpc[t] /\ rpc'[t] # NoRPC)
                 => rpc'[t].op \notin {"HealthCheck", "Register"}
          /\ Len(loops') = Len(loops)
          /\ ~Has2(inMemoryInstances', cli.serviceName, cli.instanceID)]_vars

\* C29: a call of Discover(name) sends the Discover RPC, with healthyOnly
\* set, exactly when the cache has no entry for the name that is still
\* valid, and else goes on with the cached list; the list of a successful
\* RPC is stored under the name with the expiration now + ClientTTL, and
\* nothing else changes the cache; a failed RPC makes Discover return the
\* error with the cache as it was; an empty list makes it return "no
\* instances available"; and the pool changes only in a Discover that has
\* selected an instance.
C29_DiscoverUsesCache ==
  [][/\ (upc = "idle" /\ upc' # "idle")
          => LET valid == dname' \in DOMAIN ccache /\ now <= ccache[dname'].expiration IN
             /\ valid => /\ rpc' = rpc
                         /\ upc' = "select"
                         /\ dinst' = ccache[dname'].object
             /\ ~valid => /\ upc' = "disc"
                          /\ rpc'[0] = [op |-> "Discover",
                                        req |-> [serviceName |-> dname', healthyOnly |-> TRUE]]
     /\ (rpc'[0] # rpc[0] /\ rpc'[0].op = "Discover") => upc = "idle"
     /\ (upc = "disc" /\ upc' = "select")
          => /\ pc["p1"] = "done" /\ resp["p1"].code = "OK"
             /\ dinst' = resp["p1"].instances
             /\ dname \in DOMAIN ccache'
             /\ ccache'[dname] = [object |-> resp["p1"].instances,
                                  expiration |-> now + ClientTTL]
             /\ \A s \in DOMAIN ccache' \ {dname} : s \in DOMAIN ccache /\ ccache'[s] = ccache[s]
     /\ (upc = "disc" /\ upc' \notin {"disc", "select"})
          => upc' = "idle" /\ ures' = "rpc error" /\ ccache' = ccache
     /\ ccache' # ccache => (upc = "disc" /\ upc' = "select")
     /\ (upc = "select" /\ upc' # "select")
          => IF Len(dinst) = 0
             THEN upc' = "idle" /\ ures' = "no instances available" /\ poolVars' = poolVars
             ELSE upc' = "get" /\ \E k \in DOMAIN dinst : picked'[dname] = dinst[k]
     /\ poolVars' # poolVars => upc = "get"]_vars

\* The user's second Discover goes on with the cached list of one instance
\* at the last moment of the entry, no RPC sent for it.
C29_Witness ==
  /\ upc = "select"
  /\ ucalls = 2
  /\ rpc[0] = NoRPC
  /\ pc["p1"] = "idle"
  /\ calls = 2
  /\ Len(dinst) = 1
  /\ dname \in DOMAIN ccache
  /\ ccache[dname].expiration = now
  /\ now > 0

\* C30: no call of Close closes a connection that has been closed: the
\* connection to the server and each pooled connection are closed at most
\* once, and a Close of a closed client returns nil.
C30_CloseIsIdempotent ==
  /\ connCloses <= 1
  /\ \A c \in DOMAIN pcs : pcs[c].closes <= 1
  /\ (connCloses > 0 /\ upc = "idle") => ures = "nil"

\* C31: no goroutine holds s.mu while a call of its handler to the store is
\* in flight, so that a Discover is never kept waiting by a store call.
C31_NoStoreCallUnderLock ==
  \A p \in Procs : pc[p] \in {"reg_put", "hc_put"} => p \notin mu

\* C32: once Close has emptied the pool, a monitor whose connection is no
\* longer in the map has returned or can still return: its connection is
\* open with the count zero, so that a tick may find it Ready, or it is at
\* the write lock with the count zero.
C32_MonitorsEndAfterClose ==
  \A c \in DOMAIN pcs :
    (closings > 0 /\ (\A a \in DOMAIN conns : conns[a] # c))
      => \/ monitor[c] = "exit"
         \/ pcs[c].refCount = 0 /\ (monitor[c] = "lock" \/ pcs[c].closes = 0)

\* C33: each turn of Select's loop reads the count the pool has for the
\* instance's address at that moment; what Select returns is the instance
\* whose count, as read, is the least, the first in the list among those
\* with the least; and it returns none exactly for the empty list.
C33_LeastConnections ==
  [][/\ (lc.at = "scan" /\ lc' # lc)
          => LET inst == lc.instances[Len(lc.read) + 1]
                 a == JoinHostPort(inst.address, inst.port)
             IN lc'.read = Append(lc.read, IF a \in DOMAIN conns
                                           THEN pcs[conns[a]].refCount ELSE 0)
     /\ (lc.at # "done" /\ lc'.at = "done")
          => /\ Len(lc'.read) = Len(lc'.instances)
             /\ (lc'.selected = NoInstance) <=> (Len(lc'.instances) = 0)
             /\ Len(lc'.instances) > 0
                  => \E k \in DOMAIN lc'.instances :
                       /\ lc'.selected = lc'.instances[k]
                       /\ \A j \in DOMAIN lc'.instances : lc'.read[k] <= lc'.read[j]
                       /\ \A j \in 1..(k - 1) : lc'.read[j] > lc'.read[k]]_vars

\* Select has gone through three instances whose counts are still what it
\* read: the first has a connection in use, the other two have none, and
\* the second is returned.
C33_Witness ==
  /\ lc.at = "done"
  /\ Len(lc.instances) = 3
  /\ \A k \in 1..3 :
       lc.read[k] = ConnectionCount(JoinHostPort(lc.instances[k].address,
                                                 lc.instances[k].port))
  /\ lc.read[1] > lc.read[2]
  /\ lc.read[2] = lc.read[3]
  /\ lc.selected = lc.instances[2]

\* C34: the interval of a loop's ticker is the configured
\* HealthCheckInterval when that is not zero, and else TTL / 3 when that is
\* at least five seconds and five seconds when it is less.
C34_HealthInterval ==
  [][Len(loops') > Len(loops)
       => /\ health'.TTL = health.TTL
          /\ health'.HealthCheckInterval = health.HealthCheckInterval
          /\ health'.next = now + health'.interval
          /\ health'.interval =
               IF health.HealthCheckInterval # 0 THEN health.HealthCheckInterval
               ELSE IF health.TTL \div 3 >= FiveSeconds THEN health.TTL \div 3
               ELSE FiveSeconds]_vars

\* A loop runs with the interval left to be calculated, the TTL so small
\* that its third is less than five seconds.
C34_Witness ==
  /\ healthCheckCtx # 0
  /\ health.HealthCheckInterval = 0
  /\ health.TTL > 3
  /\ health.TTL \div 3 < FiveSeconds
  /\ health.interval = FiveSeconds

\* C35: a refresh whose prefix get returns records that parse and records
\* that do not skips the latter, counts each of them in an error counter and
\* builds a view of exactly the records that parse.
C35_UnparseableSkippedAndCounted ==
  [][(refresher = "wait" /\ refresher' = "swap")
       => LET bad == { k \in DOMAIN etcd : ~Unmarshal(etcd[k].value).ok }
              regs == { Unmarshal(etcd[k].value).reg : k \in DOMAIN etcd \ bad }
          IN  /\ \A s \in Services, i \in Ids :
                   Has2(newCache', s, i)
                     <=> \E r \in regs : r.serviceName = s /\ r.instanceId = i
              /\ \A s \in DOMAIN newCache' : \A i \in DOMAIN newCache'[s] :
                   newCache'[s][i] \in regs
              /\ metrics'.cacheRefreshErrors
                   = metrics.cacheRefreshErrors + Cardinality(bad)]_vars

C37_NothingStartsAfterClose ==
  [][ctx.done => (janitorNext' = janitorNext /\ refreshNext' = refreshNext)]_vars

\* C38: the client's TTL being the server's cacheTTL and its interval the
\* calculated one, the instance of a client that has registered and whose
\* RPCs have all succeeded is in the in-memory server's map, whatever the
\* cacheTTL, below five seconds too.
C38_KeptAlive ==
  (/\ ucalls = 1
   /\ upc = "idle"
   /\ ures = "nil"
   /\ health.TTL = CacheTTL
   /\ health.HealthCheckInterval = 0
   /\ \A l \in DOMAIN loops : loops[l] \in {"wait", "hc"} /\ ~reregistered[l])
    => Has2(inMemoryInstances, cli.serviceName, cli.instanceID)

\* C39: the count of every connection in the pool's map, which is what
\* ConnectionCount returns for its address, is never negative.
C39_CountNeverNegative ==
  \A a \in DOMAIN conns : pcs[conns[a]].refCount >= 0

\* C40: the client's cache holds no empty list: a Discover that the server
\* answered with no instances has cached nothing.
C40_CacheHoldsNoEmptyList ==
  \A s \in DOMAIN ccache : Len(ccache[s].object) > 0

============================================================================
